---- MODULE Spec2Model ----
(***************************************************************************)
(* A model of the llm unified client: the client factory (NewClient and    *)
(* the adapter constructors), the ChatHistory container and the Request    *)
(* builders and mutators.                                                  *)
(*                                                                         *)
(* Go values are modelled as follows.  A string is a TLA+ string.  A       *)
(* pointer to a float64, an int or a string is a sequence: <<>> is         *)
(* the nil pointer and <<v>> points to v.  A slice is a sequence (the nil  *)
(* slice and the empty slice are both <<>>: the code only ever takes their *)
(* length and ranges over them).  A map is the set of its <<key, value>>   *)
(* pairs, the nil map the empty set.  A float64 is an integer number of    *)
(* tenths (2 stands for 0.2).  A time.Duration is a number of seconds.     *)
(* An error is its message; NoError is the nil error.                      *)
(***************************************************************************)
EXTENDS Integers, Sequences, FiniteSets, TLC

VARIABLES
    config,       \* the Config last handed to NewClient
    client,       \* the Client NewClient returned (NilClient when it failed)
    err,          \* the error NewClient returned (NoError when it succeeded)
    factoryOp,    \* "init" before the first call, then "NewClient"
    history,      \* the caller's ChatHistory
    appended,     \* the messages appended to history since the last Clear
    histBefore,   \* history as it was before the last operation on it
    histOp,       \* the last operation on history, with its arguments
    panicked,     \* TRUE once an operation aborted with a runtime panic
    request,      \* the caller's Request
    reqBefore,    \* request as it was before the last operation on it
    reqOp,        \* the last operation on request, with its arguments
    mem,          \* the backing arrays of the message slices, by address
    chatHistory,  \* the slice header of the caller's ChatHistory.Messages
    chatRequest,  \* the slice header of the built Request.Messages
    chatOp,       \* the last operation on chatHistory or chatRequest
    histValue,    \* the messages the caller put into chatHistory, in order
    reqValue,     \* the messages the caller expects in chatRequest, in order
    genRequest,   \* the Request handed to Generate
    payload,      \* the payload buildPayload returned (NoPayload before)
    pc,           \* where the call in progress stands: idle, sending, reading, done
    callOp,       \* the operation the caller invoked on the client, with its arguments
    ctx,          \* the context.Context of the call: its kind and its Err()
    httpLog,      \* the HTTP requests the call in progress has issued, in order
    generateCalls,\* the Requests Generate was invoked with during the call
    reply,        \* the status and body the provider answered the call with
    result,       \* what the call returned: the response pointer and the error
    prevFailed,   \* TRUE when the call before this one returned an error
    lastHistoryCall, \* the latest GenerateWithHistory call that returned
    inflight,     \* the Generate calls that run at the same time, by goroutine
    ctxDoneAt     \* pc when ctx was cancelled or expired, "" while it is live

factoryVars == <<config, client, err, factoryOp>>
historyVars == <<history, appended, histBefore, histOp, panicked>>
requestVars == <<request, reqBefore, reqOp>>
memVars == <<mem, chatHistory, chatRequest, chatOp, histValue, reqValue>>
callVars == <<genRequest, payload, pc, callOp, ctx, httpLog, generateCalls,
              reply, result, prevFailed, lastHistoryCall, inflight, ctxDoneAt>>
vars == <<config, client, err, factoryOp, history, appended, histBefore,
          histOp, panicked, request, reqBefore, reqOp,
          mem, chatHistory, chatRequest, chatOp, histValue, reqValue,
          genRequest, payload, pc, callOp, ctx, httpLog, generateCalls,
          reply, result, prevFailed, lastHistoryCall, inflight, ctxDoneAt>>

-----------------------------------------------------------------------------
(* Bounds of the model.                                                    *)

\* The most messages appended to a ChatHistory between two Clears.
MaxAppends == 3

-----------------------------------------------------------------------------
(* types.go: providers, roles, messages, pointers.                         *)

ProviderOpenAI == "openai"
ProviderDeepSeek == "deepseek"
ProviderQwen == "qwen"
ProviderAzure == "azure"
ProviderCohere == "cohere"

RoleSystem == "system"
RoleUser == "user"
RoleAssistant == "assistant"
RoleFunction == "function"

Nil == <<>>
Ptr(v) == <<v>>

\* A slice header: the address of its backing array (0 for the nil slice) and
\* its length.  Every slice of the model starts at the first element of its
\* array, so its capacity is the length of the array.
NilSlice == [arr |-> 0, len |-> 0]

Message(role, content) == [Role |-> role, Content |-> content, Name |-> ""]

NoError == "<nil>"
NilClient == [kind |-> "nil"]

\* A map[string]interface{} that holds no key: no payload has been built.
NoPayload == [k \in {} |-> k]

\* context.Background(): never cancelled, no deadline.
BackgroundCtx == [kind |-> "background", err |-> NoError]

\* No reply has arrived; no call has returned.
NoReply == [status |-> 0, body |-> "", complete |-> FALSE]
NoResult == [response |-> Nil, err |-> NoError]
\* No GenerateWithHistory call has returned yet.
NoHistoryCall == [userMessage |-> "", systemPrompt |-> "", messages |-> <<>>]

\* The zero value of Config.
ZeroConfig ==
    [Provider |-> "", APIKey |-> "", BaseURL |-> "", Timeout |-> 0,
     DefaultModel |-> "", DefaultTemperature |-> Nil, DefaultMaxTokens |-> Nil,
     DefaultTopP |-> Nil, DefaultTopK |-> Nil]

\* The zero value of Request.
ZeroRequest ==
    [Messages |-> <<>>, SystemPrompt |-> "", Temperature |-> Nil,
     MaxTokens |-> Nil, TopP |-> Nil, TopK |-> Nil, Stream |-> FALSE,
     ExtraParams |-> {}, Model |-> Nil]

\* The zero value of ChatHistory.
ZeroChatHistory == [Messages |-> <<>>]

-----------------------------------------------------------------------------
(* Inputs the model draws from.                                            *)

\* Provider tags a caller may put in a Config: the known ones, the empty tag
\* and two tags no adapter exists for.
ProviderTags ==
    {ProviderOpenAI, ProviderDeepSeek, ProviderQwen, ProviderAzure,
     ProviderCohere, "", "gemini", "OpenAI"}

APIKeys == {"", "test-key"}

URLPrefixes == {"", "https://r.openai.azure.com/openai"}
URLMiddles == {"", "/deployments", "/deployments/", "/Deployments/", "deployments/"}
URLSuffixes == {"", "gpt4", "/"}
BaseURLs == {a \o b \o c : a \in URLPrefixes, b \in URLMiddles, c \in URLSuffixes}

Timeouts == {0, 10}
ModelNames == {"", "test-model"}
FloatPtrs == {Nil, Ptr(7)}
IntPtrs == {Nil, Ptr(100)}

Configs ==
    [Provider : ProviderTags, APIKey : APIKeys, BaseURL : BaseURLs,
     Timeout : Timeouts, DefaultModel : ModelNames,
     DefaultTemperature : FloatPtrs, DefaultMaxTokens : IntPtrs,
     DefaultTopP : {Nil}, DefaultTopK : {Nil}]

-----------------------------------------------------------------------------
(* strings.Contains                                                        *)

Contains(s, substr) ==
    \E i \in 1..(Len(s) - Len(substr) + 1) :
        SubSeq(s, i, i + Len(substr) - 1) = substr

-----------------------------------------------------------------------------
(* The adapter constructors.  Each returns the pair Go returns: the client *)
(* (NilClient on failure) and the error (NoError on success).  A client    *)
(* holds its own copy of the config, with the defaults filled in, and the  *)
(* timeout its http.Client was built with.                                 *)

ErrAPIKeyRequired == "API key is required"
ErrAzureBaseURLRequired == "base URL is required for Azure OpenAI"
ErrAzureDeploymentRequired ==
    "Azure OpenAI URL must include deployment name: /deployments/<deployment-name>"
ErrUnsupportedProvider(provider) == "unsupported LLM provider: " \o provider

\* 30 * time.Second
DefaultTimeout == 30

Failed(e) == [client |-> NilClient, err |-> e]
Built(kind, cfg) ==
    [client |-> [kind |-> kind, config |-> cfg, httpTimeout |-> cfg.Timeout],
     err |-> NoError]

WithTimeoutDefault(cfg) ==
    IF cfg.Timeout = 0 THEN [cfg EXCEPT !.Timeout = DefaultTimeout] ELSE cfg

OpenAIDefaultBaseURL(provider) ==
    CASE provider = ProviderOpenAI -> "https://api.openai.com/v1"
      [] provider = ProviderDeepSeek -> "https://api.deepseek.com"
      [] OTHER -> "https://api.openai.com/v1"

OpenAIDefaultModel(provider) ==
    CASE provider = ProviderOpenAI -> "gpt-3.5-turbo"
      [] provider = ProviderDeepSeek -> "deepseek-chat"
      [] OTHER -> "gpt-3.5-turbo"

newOpenAIClient(cfg) ==
    IF cfg.APIKey = "" THEN Failed(ErrAPIKeyRequired)
    ELSE LET c1 == IF cfg.BaseURL = ""
                   THEN [cfg EXCEPT !.BaseURL = OpenAIDefaultBaseURL(cfg.Provider)]
                   ELSE cfg
             c2 == WithTimeoutDefault(c1)
             c3 == IF c2.DefaultModel = ""
                   THEN [c2 EXCEPT !.DefaultModel = OpenAIDefaultModel(cfg.Provider)]
                   ELSE c2
         IN  Built("openAIClient", c3)

newQwenClient(cfg) ==
    IF cfg.APIKey = "" THEN Failed(ErrAPIKeyRequired)
    ELSE LET c1 == IF cfg.BaseURL = ""
                   THEN [cfg EXCEPT !.BaseURL =
                            "https://dashscope-intl.aliyuncs.com/compatible-mode/v1"]
                   ELSE cfg
             c2 == WithTimeoutDefault(c1)
             c3 == IF c2.DefaultModel = ""
                   THEN [c2 EXCEPT !.DefaultModel = "qwen3-next-80b-a3b-instruct"]
                   ELSE c2
         IN  Built("qwenClient", c3)

newAzureClient_NoDeploymentCheck(cfg) ==
    IF cfg.APIKey = "" THEN Failed(ErrAPIKeyRequired)
    ELSE IF cfg.BaseURL = "" THEN Failed(ErrAzureBaseURLRequired)
    ELSE LET c2 == WithTimeoutDefault(cfg)
             c3 == IF c2.DefaultModel = ""
                   THEN [c2 EXCEPT !.DefaultModel = "gpt-35-turbo"]
                   ELSE c2
         IN  Built("azureClient", c3)

newAzureClient(cfg) ==
    IF cfg.APIKey = "" THEN Failed(ErrAPIKeyRequired)
    ELSE IF cfg.BaseURL = "" THEN Failed(ErrAzureBaseURLRequired)
    ELSE IF ~Contains(cfg.BaseURL, "/deployments/")
         THEN Failed(ErrAzureDeploymentRequired)
    ELSE LET c2 == WithTimeoutDefault(cfg)
             c3 == IF c2.DefaultModel = ""
                   THEN [c2 EXCEPT !.DefaultModel = "gpt-35-turbo"]
                   ELSE c2
         IN  Built("azureClient", c3)

newCohereClient(cfg) ==
    IF cfg.APIKey = "" THEN Failed(ErrAPIKeyRequired)
    ELSE LET c1 == IF cfg.BaseURL = ""
                   THEN [cfg EXCEPT !.BaseURL = "https://api.cohere.ai/v1"]
                   ELSE cfg
             c2 == WithTimeoutDefault(c1)
             c3 == IF c2.DefaultModel = ""
                   THEN [c2 EXCEPT !.DefaultModel = "embed-multilingual-v3.0"]
                   ELSE c2
         IN  Built("cohereClient", c3)

NewOpenAICompatibleClient(cfg) == newOpenAIClient(cfg)
NewQwenClient(cfg) == newQwenClient(cfg)
NewAzureClient(cfg) == newAzureClient(cfg)

NewClient_DefaultToOpenAI(cfg) ==
    CASE cfg.Provider = ProviderQwen -> NewQwenClient(cfg)
      [] cfg.Provider = ProviderAzure -> NewAzureClient(cfg)
      [] OTHER -> NewOpenAICompatibleClient(cfg)

NewClient(cfg) ==
    CASE cfg.Provider \in {ProviderOpenAI, ProviderDeepSeek} ->
            NewOpenAICompatibleClient(cfg)
      [] cfg.Provider = ProviderQwen -> NewQwenClient(cfg)
      [] cfg.Provider = ProviderAzure -> NewAzureClient(cfg)
      [] OTHER -> Failed(ErrUnsupportedProvider(cfg.Provider))

-----------------------------------------------------------------------------
(* The factory's one operation: a caller hands NewClient the Config it     *)
(* built.                                                                  *)

CallNewClient ==
    /\ factoryOp = "init"
    /\ LET r == NewClient(config)
       IN  /\ client' = r.client
           /\ err' = r.err
    /\ factoryOp' = "NewClient"
    /\ UNCHANGED config
    /\ UNCHANGED <<historyVars, requestVars, memVars, callVars>>

-----------------------------------------------------------------------------
(* ChatHistory (client.go).  Each method is an operator from the history   *)
(* (and the arguments) to the history it leaves.                           *)

AddMessage_Prepend(h, role, content) ==
    [h EXCEPT !.Messages = <<Message(role, content)>> \o h.Messages]

AddMessage(h, role, content) ==
    [h EXCEPT !.Messages = Append(h.Messages, Message(role, content))]

HistoryAddSystemMessage(h, content) == AddMessage(h, RoleSystem, content)
HistoryAddUserMessage(h, content) == AddMessage(h, RoleUser, content)
HistoryAddAssistantMessage(h, content) == AddMessage(h, RoleAssistant, content)

GetMessages(h) == h.Messages

Clear_KeepSystemPrompt(h) ==
    [h EXCEPT !.Messages =
        IF Len(h.Messages) > 0 /\ h.Messages[1].Role = RoleSystem
        THEN <<h.Messages[1]>>
        ELSE <<>>]

Clear(h) == [h EXCEPT !.Messages = <<>>]

\* nil is modelled as <<>>, a message as <<m>>.
GetLastMessage(h) ==
    IF Len(h.Messages) = 0 THEN Nil ELSE Ptr(h.Messages[Len(h.Messages)])

\* The slice expression s[low:] panics unless 0 <= low <= len(s).
SliceFromPanics(s, low) == ~(0 <= low /\ low <= Len(s))
SliceFrom(s, low) == SubSeq(s, low + 1, Len(s))

TruncatePanics_NegativeReturns(h, n) ==
    /\ n >= 0
    /\ Len(h.Messages) > n
    /\ SliceFromPanics(h.Messages, Len(h.Messages) - n)

TruncatePanics(h, n) ==
    /\ Len(h.Messages) > n
    /\ SliceFromPanics(h.Messages, Len(h.Messages) - n)

Truncate_KeepFirst(h, n) ==
    IF Len(h.Messages) > n
    THEN [h EXCEPT !.Messages = SubSeq(h.Messages, 1, n)]
    ELSE h

Truncate(h, n) ==
    IF Len(h.Messages) > n
    THEN [h EXCEPT !.Messages = SliceFrom(h.Messages, Len(h.Messages) - n)]
    ELSE h

-----------------------------------------------------------------------------
(* The operations a caller performs on its ChatHistory.                    *)

Roles == {RoleSystem, RoleUser, RoleAssistant, RoleFunction}
Contents == {"Hello", "Hi!"}
TruncateArgs == -2..(MaxAppends + 1)

CallAddMessage ==
    \E role \in Roles, content \in Contents :
        /\ ~panicked
        /\ Len(appended) < MaxAppends
        /\ history' = AddMessage(history, role, content)
        /\ appended' = Append(appended, Message(role, content))
        /\ histBefore' = history
        /\ histOp' = [name |-> "AddMessage", role |-> role, content |-> content]
        /\ UNCHANGED panicked
        /\ UNCHANGED <<factoryVars, requestVars, memVars, callVars>>

CallAddSystemMessage ==
    \E content \in Contents :
        /\ ~panicked
        /\ Len(appended) < MaxAppends
        /\ history' = HistoryAddSystemMessage(history, content)
        /\ appended' = Append(appended, Message(RoleSystem, content))
        /\ histBefore' = history
        /\ histOp' = [name |-> "AddSystemMessage", role |-> RoleSystem,
                      content |-> content]
        /\ UNCHANGED panicked
        /\ UNCHANGED <<factoryVars, requestVars, memVars, callVars>>

CallAddUserMessage ==
    \E content \in Contents :
        /\ ~panicked
        /\ Len(appended) < MaxAppends
        /\ history' = HistoryAddUserMessage(history, content)
        /\ appended' = Append(appended, Message(RoleUser, content))
        /\ histBefore' = history
        /\ histOp' = [name |-> "AddUserMessage", role |-> RoleUser,
                      content |-> content]
        /\ UNCHANGED panicked
        /\ UNCHANGED <<factoryVars, requestVars, memVars, callVars>>

CallAddAssistantMessage ==
    \E content \in Contents :
        /\ ~panicked
        /\ Len(appended) < MaxAppends
        /\ history' = HistoryAddAssistantMessage(history, content)
        /\ appended' = Append(appended, Message(RoleAssistant, content))
        /\ histBefore' = history
        /\ histOp' = [name |-> "AddAssistantMessage", role |-> RoleAssistant,
                      content |-> content]
        /\ UNCHANGED panicked
        /\ UNCHANGED <<factoryVars, requestVars, memVars, callVars>>

CallTruncate ==
    \E n \in TruncateArgs :
        /\ ~panicked
        /\ histBefore' = history
        /\ histOp' = [name |-> "Truncate", n |-> n]
        /\ IF TruncatePanics(history, n)
           THEN /\ panicked' = TRUE
                /\ UNCHANGED <<history, appended>>
           ELSE /\ history' = Truncate(history, n)
                /\ UNCHANGED <<appended, panicked>>
        /\ UNCHANGED <<factoryVars, requestVars, memVars, callVars>>

CallClear ==
    /\ ~panicked
    /\ history' = Clear(history)
    /\ appended' = <<>>
    /\ histBefore' = history
    /\ histOp' = [name |-> "Clear"]
    /\ UNCHANGED panicked
    /\ UNCHANGED <<factoryVars, requestVars, memVars, callVars>>

-----------------------------------------------------------------------------
(* Request builders and mutators (client.go).                              *)

BuildSimpleRequest_SystemRole(message) ==
    [ZeroRequest EXCEPT !.Messages = <<Message(RoleSystem, message)>>]

BuildSimpleRequest(message) ==
    [ZeroRequest EXCEPT !.Messages = <<Message(RoleUser, message)>>]

BuildChatRequest(messages, userMessage) ==
    [ZeroRequest EXCEPT !.Messages = Append(messages, Message(RoleUser, userMessage))]

BuildRequestWithSystemPrompt_SkipsEmptyPrompt(systemPrompt, userMessage) ==
    [ZeroRequest EXCEPT !.Messages =
        IF systemPrompt = ""
        THEN <<Message(RoleUser, userMessage)>>
        ELSE <<Message(RoleSystem, systemPrompt), Message(RoleUser, userMessage)>>]

BuildRequestWithSystemPrompt(systemPrompt, userMessage) ==
    [ZeroRequest EXCEPT !.Messages =
        <<Message(RoleSystem, systemPrompt), Message(RoleUser, userMessage)>>]

RequestAddSystemMessage(r, content) ==
    [r EXCEPT !.Messages = <<Message(RoleSystem, content)>> \o r.Messages]

RequestAddUserMessage(r, content) ==
    [r EXCEPT !.Messages = Append(r.Messages, Message(RoleUser, content))]

RequestAddAssistantMessage(r, content) ==
    [r EXCEPT !.Messages = Append(r.Messages, Message(RoleAssistant, content))]

SetTemperature(r, temp) == [r EXCEPT !.Temperature = Ptr(temp)]

SetMaxTokens_OnlyIfUnset(r, tokens) ==
    IF r.MaxTokens = Nil THEN [r EXCEPT !.MaxTokens = Ptr(tokens)] ELSE r

SetMaxTokens(r, tokens) == [r EXCEPT !.MaxTokens = Ptr(tokens)]

SetTopP(r, topP) == [r EXCEPT !.TopP = Ptr(topP)]

SetTopK(r, topK) == [r EXCEPT !.TopK = Ptr(topK)]

SetModel_ResetsParams(r, model) ==
    [r EXCEPT !.Model = Ptr(model), !.Temperature = Nil]

SetModel(r, model) == [r EXCEPT !.Model = Ptr(model)]

SetStreaming(r, stream) == [r EXCEPT !.Stream = stream]

-----------------------------------------------------------------------------
(* The operations a caller performs on its Request.                        *)

\* float64 arguments, in tenths: 0.2 and 0.9.
Floats == {2, 9}
Ints == {0, 100}
UserStrings == {"", "Hello"}
ExtraParamsValues == {{}, {<<"frequency_penalty", 1>>}}
\* The message sequences handed to BuildChatRequest.
HistoryArgs ==
    {<<>>, <<Message(RoleUser, "Hello"), Message(RoleAssistant, "Hi!")>>}

CallBuildSimpleRequest ==
    \E m \in UserStrings :
        /\ request' = BuildSimpleRequest(m)
        /\ reqBefore' = request
        /\ reqOp' = [name |-> "BuildSimpleRequest", arg |-> m]
        /\ UNCHANGED <<factoryVars, historyVars, memVars, callVars>>

CallBuildRequestWithSystemPrompt ==
    \E sp \in UserStrings, m \in UserStrings :
        /\ request' = BuildRequestWithSystemPrompt(sp, m)
        /\ reqBefore' = request
        /\ reqOp' = [name |-> "BuildRequestWithSystemPrompt", arg |-> <<sp, m>>]
        /\ UNCHANGED <<factoryVars, historyVars, memVars, callVars>>

CallBuildChatRequest ==
    \E h \in HistoryArgs, m \in UserStrings :
        /\ request' = BuildChatRequest(h, m)
        /\ reqBefore' = request
        /\ reqOp' = [name |-> "BuildChatRequest", arg |-> <<h, m>>]
        /\ UNCHANGED <<factoryVars, historyVars, memVars, callVars>>

\* The caller assigns the exported field: req.ExtraParams = map[string]interface{}{...}
AssignExtraParams ==
    \E e \in ExtraParamsValues :
        /\ request' = [request EXCEPT !.ExtraParams = e]
        /\ reqBefore' = request
        /\ reqOp' = [name |-> "AssignExtraParams", arg |-> e]
        /\ UNCHANGED <<factoryVars, historyVars, memVars, callVars>>

CallSetTemperature ==
    \E v \in Floats :
        /\ request' = SetTemperature(request, v)
        /\ reqBefore' = request
        /\ reqOp' = [name |-> "SetTemperature", arg |-> v]
        /\ UNCHANGED <<factoryVars, historyVars, memVars, callVars>>

CallSetMaxTokens ==
    \E v \in Ints :
        /\ request' = SetMaxTokens(request, v)
        /\ reqBefore' = request
        /\ reqOp' = [name |-> "SetMaxTokens", arg |-> v]
        /\ UNCHANGED <<factoryVars, historyVars, memVars, callVars>>

CallSetTopP ==
    \E v \in Floats :
        /\ request' = SetTopP(request, v)
        /\ reqBefore' = request
        /\ reqOp' = [name |-> "SetTopP", arg |-> v]
        /\ UNCHANGED <<factoryVars, historyVars, memVars, callVars>>

CallSetTopK ==
    \E v \in Ints :
        /\ request' = SetTopK(request, v)
        /\ reqBefore' = request
        /\ reqOp' = [name |-> "SetTopK", arg |-> v]
        /\ UNCHANGED <<factoryVars, historyVars, memVars, callVars>>

CallSetModel ==
    \E v \in ModelNames :
        /\ request' = SetModel(request, v)
        /\ reqBefore' = request
        /\ reqOp' = [name |-> "SetModel", arg |-> v]
        /\ UNCHANGED <<factoryVars, historyVars, memVars, callVars>>

CallSetStreaming ==
    \E v \in BOOLEAN :
        /\ request' = SetStreaming(request, v)
        /\ reqBefore' = request
        /\ reqOp' = [name |-> "SetStreaming", arg |-> v]
        /\ UNCHANGED <<factoryVars, historyVars, memVars, callVars>>

-----------------------------------------------------------------------------------------------------------------------------------------------------
(* Specifications.  The factory, a ChatHistory and a Request share no      *)
(* state, so each has a specification of its own, in which the variables   *)
(* of the other two keep their initial values.  Initially the caller holds *)
(* a Config it built and not yet used, an empty ChatHistory and a zero     *)
(* Request.                                                                *)

Init ==
    /\ config \in Configs
    /\ client = NilClient
    /\ err = NoError
    /\ factoryOp = "init"
    /\ history = ZeroChatHistory
    /\ appended = <<>>
    /\ histBefore = ZeroChatHistory
    /\ histOp = [name |-> "init"]
    /\ panicked = FALSE
    /\ request = ZeroRequest
    /\ reqBefore = ZeroRequest
    /\ reqOp = [name |-> "init"]
    /\ mem = <<>>
    /\ chatHistory = NilSlice
    /\ chatRequest = NilSlice
    /\ chatOp = [name |-> "init"]
    /\ histValue = <<>>
    /\ reqValue = <<>>
    /\ genRequest = ZeroRequest
    /\ payload = NoPayload
    /\ pc = "idle"
    /\ callOp = [name |-> "init"]
    /\ ctx = BackgroundCtx
    /\ httpLog = <<>>
    /\ generateCalls = <<>>
    /\ reply = NoReply
    /\ result = NoResult
    /\ prevFailed = FALSE
    /\ lastHistoryCall = NoHistoryCall
    /\ inflight = <<>>
    /\ ctxDoneAt = ""

InitOneConfig ==
    /\ config = ZeroConfig
    /\ client = NilClient
    /\ err = NoError
    /\ factoryOp = "init"
    /\ history = ZeroChatHistory
    /\ appended = <<>>
    /\ histBefore = ZeroChatHistory
    /\ histOp = [name |-> "init"]
    /\ panicked = FALSE
    /\ request = ZeroRequest
    /\ reqBefore = ZeroRequest
    /\ reqOp = [name |-> "init"]
    /\ mem = <<>>
    /\ chatHistory = NilSlice
    /\ chatRequest = NilSlice
    /\ chatOp = [name |-> "init"]
    /\ histValue = <<>>
    /\ reqValue = <<>>
    /\ genRequest = ZeroRequest
    /\ payload = NoPayload
    /\ pc = "idle"
    /\ callOp = [name |-> "init"]
    /\ ctx = BackgroundCtx
    /\ httpLog = <<>>
    /\ generateCalls = <<>>
    /\ reply = NoReply
    /\ result = NoResult
    /\ prevFailed = FALSE
    /\ lastHistoryCall = NoHistoryCall
    /\ inflight = <<>>
    /\ ctxDoneAt = ""

FactoryNext == CallNewClient

SpecFactory == Init /\ [][FactoryNext]_vars

HistoryNext ==
    \/ CallAddMessage
    \/ CallAddSystemMessage
    \/ CallAddUserMessage
    \/ CallAddAssistantMessage
    \/ CallTruncate
    \/ CallClear

SpecHistory == InitOneConfig /\ [][HistoryNext]_vars

RequestNext ==
    \/ CallBuildSimpleRequest
    \/ CallBuildRequestWithSystemPrompt
    \/ CallBuildChatRequest
    \/ AssignExtraParams
    \/ CallSetTemperature
    \/ CallSetMaxTokens
    \/ CallSetTopP
    \/ CallSetTopK
    \/ CallSetModel
    \/ CallSetStreaming

SpecRequest == InitOneConfig /\ [][RequestNext]_vars

-----------------------------------------------------------------------------
(* client.go on slices that share memory.  mem[a] is the backing array at  *)
(* address a, as long as its capacity; a slice sees its first len          *)
(* elements.  The built-in append writes in place while the capacity       *)
(* suffices and moves to a fresh array otherwise; how much capacity the    *)
(* runtime adds beyond the need is its own choice (spare).                 *)

\* The largest spare capacity the runtime adds when append grows an array.
MaxSpare == 1
\* The most messages in the caller's ChatHistory.
MaxChatLen == 2
\* The most backing arrays allocated in one run.
MaxArrays == 5
\* The most messages in a request given to buildPayload.
MaxMessages == 3

ZeroMessage == [Role |-> "", Content |-> "", Name |-> ""]
ZeroArray(n) == [i \in 1..n |-> ZeroMessage]

Cap(m, s) == IF s.arr = 0 THEN 0 ELSE Len(m[s.arr])
Elems(m, s) == IF s.arr = 0 THEN <<>> ELSE SubSeq(m[s.arr], 1, s.len)

\* make([]Message, 0, n)
MakeSlice(m, n) ==
    [mem |-> Append(m, ZeroArray(n)), slice |-> [arr |-> Len(m) + 1, len |-> 0]]

\* []Message{x}
SliceLiteral(m, x) ==
    [mem |-> Append(m, <<x>>), slice |-> [arr |-> Len(m) + 1, len |-> 1]]

\* append(s, xs...)
GoAppend(m, s, xs, spare) ==
    LET n == s.len + Len(xs) IN
    IF xs = <<>>
    THEN [mem |-> m, slice |-> s]
    ELSE IF n <= Cap(m, s)
    THEN [mem |-> [m EXCEPT ![s.arr] =
                      [i \in 1..Len(@) |->
                          IF i > s.len /\ i <= n THEN xs[i - s.len] ELSE @[i]]],
          slice |-> [arr |-> s.arr, len |-> n]]
    ELSE [mem |-> Append(m, Elems(m, s) \o xs \o ZeroArray(spare)),
          slice |-> [arr |-> Len(m) + 1, len |-> n]]

\* h.Messages = append(h.Messages, Message{Role: role, Content: content})
AddMessageMem(m, h, role, content, spare) ==
    GoAppend(m, h, <<Message(role, content)>>, spare)

BuildChatRequestMem_AppendsToHistory(m, h, userMessage, spare) ==
    GoAppend(m, h, <<Message(RoleUser, userMessage)>>, spare)

BuildChatRequestMem(m, h, userMessage, spare) ==
    LET made == MakeSlice(m, h.len + 1)
        copied == GoAppend(made.mem, made.slice, Elems(made.mem, h), spare)
    IN  GoAppend(copied.mem, copied.slice, <<Message(RoleUser, userMessage)>>, spare)

\* r.Messages = append([]Message{{Role: RoleSystem, Content: content}}, r.Messages...)
RequestAddSystemMessageMem(m, r, content, spare) ==
    LET lit == SliceLiteral(m, Message(RoleSystem, content))
    IN  GoAppend(lit.mem, lit.slice, Elems(lit.mem, r), spare)

RequestAddUserMessageMem(m, r, content, spare) ==
    GoAppend(m, r, <<Message(RoleUser, content)>>, spare)

Spares == 0..MaxSpare
ChatRoles == {RoleAssistant}
SystemPrompts == {"Be brief."}
UserMessages == {"Hello"}

\* The caller appends to its history: history.AddMessage(role, content).
ChatAddMessage ==
    \E role \in ChatRoles, content \in Contents, spare \in Spares :
        LET r == AddMessageMem(mem, chatHistory, role, content, spare) IN
        /\ chatHistory.len < MaxChatLen
        /\ Len(r.mem) <= MaxArrays
        /\ mem' = r.mem
        /\ chatHistory' = r.slice
        /\ histValue' = AddMessage([Messages |-> histValue], role, content).Messages
        /\ chatOp' = [name |-> "AddMessage"]
        /\ UNCHANGED <<chatRequest, reqValue>>
        /\ UNCHANGED <<factoryVars, historyVars, requestVars, callVars>>

\* request := BuildChatRequest(history.GetMessages(), userMessage)
ChatBuildChatRequest ==
    \E userMessage \in Contents, spare \in Spares :
        LET r == BuildChatRequestMem(mem, chatHistory, userMessage, spare) IN
        /\ Len(r.mem) <= MaxArrays
        /\ mem' = r.mem
        /\ chatRequest' = r.slice
        /\ reqValue' = BuildChatRequest(histValue, userMessage).Messages
        /\ chatOp' = [name |-> "BuildChatRequest", userMessage |-> userMessage,
                      history |-> histValue]
        /\ UNCHANGED <<chatHistory, histValue>>
        /\ UNCHANGED <<factoryVars, historyVars, requestVars, callVars>>

\* request.AddSystemMessage(content), on a request BuildChatRequest returned
ChatRequestAddSystemMessage ==
    \E content \in SystemPrompts, spare \in Spares :
        LET r == RequestAddSystemMessageMem(mem, chatRequest, content, spare) IN
        /\ chatRequest.arr # 0
        /\ Len(r.mem) <= MaxArrays
        /\ mem' = r.mem
        /\ chatRequest' = r.slice
        /\ reqValue' = RequestAddSystemMessage([Messages |-> reqValue], content).Messages
        /\ chatOp' = [name |-> "Request.AddSystemMessage"]
        /\ UNCHANGED <<chatHistory, histValue>>
        /\ UNCHANGED <<factoryVars, historyVars, requestVars, callVars>>

\* request.AddUserMessage(content), on a request BuildChatRequest returned
ChatRequestAddUserMessage ==
    \E content \in UserMessages, spare \in Spares :
        LET r == RequestAddUserMessageMem(mem, chatRequest, content, spare) IN
        /\ chatRequest.arr # 0
        /\ Len(r.mem) <= MaxArrays
        /\ mem' = r.mem
        /\ chatRequest' = r.slice
        /\ reqValue' = RequestAddUserMessage([Messages |-> reqValue], content).Messages
        /\ chatOp' = [name |-> "Request.AddUserMessage"]
        /\ UNCHANGED <<chatHistory, histValue>>
        /\ UNCHANGED <<factoryVars, historyVars, requestVars, callVars>>

ChatNext ==
    \/ ChatAddMessage
    \/ ChatBuildChatRequest
    \/ ChatRequestAddSystemMessage
    \/ ChatRequestAddUserMessage

SpecChat == InitOneConfig /\ [][ChatNext]_vars

-----------------------------------------------------------------------------
(* buildPayload of the four adapters.  A map[string]interface{} is a       *)
(* function from its keys to their values; the JSON object json.Marshal    *)
(* makes of it has the same members, so the body of the POST is the map.   *)

\* payload[k] = v
Put(m, k, v) == [x \in DOMAIN m \cup {k} |-> IF x = k THEN v ELSE m[x]]

\* for k, v := range request.ExtraParams { payload[k] = v }
PutAll(m, pairs) ==
    [x \in DOMAIN m \cup {kv[1] : kv \in pairs} |->
        IF \E kv \in pairs : kv[1] = x
        THEN (CHOOSE kv \in pairs : kv[1] = x)[2]
        ELSE m[x]]

\* if override != nil { payload[k] = *override }
\* else if default != nil { payload[k] = *default }
PutParam_ZeroIsUnset(m, k, override, default) ==
    IF override # Nil /\ override # Ptr(0) THEN Put(m, k, override[1])
    ELSE IF default # Nil THEN Put(m, k, default[1])
    ELSE m

PutParam(m, k, override, default) ==
    IF override # Nil THEN Put(m, k, override[1])
    ELSE IF default # Nil THEN Put(m, k, default[1])
    ELSE m

getModel(c, override) ==
    IF override # Nil THEN override[1] ELSE c.config.DefaultModel

\* convertMessages of the OpenAI and Azure clients
convertMessages(messages) ==
    [i \in 1..Len(messages) |->
        IF messages[i].Name # ""
        THEN [role |-> messages[i].Role, content |-> messages[i].Content,
              name |-> messages[i].Name]
        ELSE [role |-> messages[i].Role, content |-> messages[i].Content]]

openAIClient_buildPayload(c, req) ==
    LET p0 == [model |-> getModel(c, req.Model),
               messages |-> convertMessages(req.Messages),
               stream |-> req.Stream]
        p1 == PutParam(p0, "temperature", req.Temperature,
                       c.config.DefaultTemperature)
        p2 == PutParam(p1, "max_tokens", req.MaxTokens,
                       c.config.DefaultMaxTokens)
        p3 == PutParam(p2, "top_p", req.TopP, c.config.DefaultTopP)
    IN  PutAll(p3, req.ExtraParams)

azureClient_buildPayload(c, req) ==
    LET p0 == [messages |-> convertMessages(req.Messages),
               stream |-> req.Stream]
        p1 == PutParam(p0, "temperature", req.Temperature,
                       c.config.DefaultTemperature)
        p2 == PutParam(p1, "max_tokens", req.MaxTokens,
                       c.config.DefaultMaxTokens)
        p3 == PutParam(p2, "top_p", req.TopP, c.config.DefaultTopP)
    IN  PutAll(p3, req.ExtraParams)

\* return 1500 // Default for Qwen
QwenDefaultMaxTokens == 1500

qwenClient_getMaxTokens(c, override) ==
    IF override # Nil THEN override[1]
    ELSE IF c.config.DefaultMaxTokens # Nil THEN c.config.DefaultMaxTokens[1]
    ELSE QwenDefaultMaxTokens

qwenClient_buildPayload(c, req) ==
    LET messages == [i \in 1..Len(req.Messages) |->
                        [role |-> req.Messages[i].Role,
                         content |-> req.Messages[i].Content]]
        p0 == [model |-> getModel(c, req.Model),
               messages |-> messages,
               max_tokens |-> qwenClient_getMaxTokens(c, req.MaxTokens)]
        p1 == PutParam(p0, "temperature", req.Temperature,
                       c.config.DefaultTemperature)
        p2 == PutParam(p1, "top_p", req.TopP, c.config.DefaultTopP)
        p3 == PutParam(p2, "top_k", req.TopK, c.config.DefaultTopK)
    IN  PutAll(p3, req.ExtraParams)

cohereClient_getModel(c, override) ==
    IF override # Nil THEN override[1]
    ELSE IF c.config.DefaultModel \in {"", "embed-multilingual-v3.0"}
    THEN "command-r-plus"
    ELSE c.config.DefaultModel

\* The chat_history the loop of cohereClient.buildPayload collects.
cohereChatHistory(messages) ==
    LET collected[i \in 0..Len(messages)] ==
            IF i = 0 THEN <<>>
            ELSE IF messages[i].Role = RoleSystem THEN collected[i - 1]
            ELSE IF messages[i].Role = RoleUser
            THEN IF i = Len(messages)
                 THEN collected[i - 1]
                 ELSE Append(collected[i - 1],
                             [role |-> "USER", message |-> messages[i].Content])
            ELSE IF messages[i].Role = RoleAssistant
            THEN Append(collected[i - 1],
                        [role |-> "CHATBOT", message |-> messages[i].Content])
            ELSE collected[i - 1]
    IN  collected[Len(messages)]

\* The message the loop of cohereClient.buildPayload selects.
cohereMessage(messages) ==
    IF messages # <<>> /\ messages[Len(messages)].Role = RoleUser
    THEN messages[Len(messages)].Content
    ELSE ""

cohereClient_buildPayload(c, req) ==
    LET chatHist == cohereChatHistory(req.Messages)
        p0 == [message |-> cohereMessage(req.Messages),
               model |-> cohereClient_getModel(c, req.Model)]
        p1 == IF Len(chatHist) > 0 THEN Put(p0, "chat_history", chatHist) ELSE p0
        p2 == PutParam(p1, "temperature", req.Temperature,
                       c.config.DefaultTemperature)
        p3 == PutParam(p2, "max_tokens", req.MaxTokens,
                       c.config.DefaultMaxTokens)
        p4 == PutParam(p3, "p", req.TopP, c.config.DefaultTopP)
        p5 == PutParam(p4, "k", req.TopK, c.config.DefaultTopK)
    IN  PutAll(p5, req.ExtraParams)

\* The Qwen adapter of the text-generation endpoint, which sends one prompt
\* string instead of a message list (src/unnamed/part_000).
newLegacyQwenClient(cfg) ==
    IF cfg.APIKey = "" THEN Failed(ErrAPIKeyRequired)
    ELSE LET c1 == IF cfg.BaseURL = ""
                   THEN [cfg EXCEPT !.BaseURL = "https://dashscope.aliyuncs.com/api/v1"]
                   ELSE cfg
             c2 == WithTimeoutDefault(c1)
             c3 == IF c2.DefaultModel = ""
                   THEN [c2 EXCEPT !.DefaultModel = "qwen-turbo"]
                   ELSE c2
         IN  Built("legacyQwenClient", c3)

\* What one message adds to the prompt: the switch has no default case.
promptPart(msg) ==
    CASE msg.Role = RoleSystem -> "System: " \o msg.Content \o "\n\n"
      [] msg.Role = RoleUser -> "User: " \o msg.Content \o "\n\n"
      [] msg.Role = RoleAssistant -> "Assistant: " \o msg.Content \o "\n\n"
      [] OTHER -> ""

buildPromptFromMessages(messages) ==
    LET prompt[i \in 0..Len(messages)] ==
            IF i = 0 THEN "" ELSE prompt[i - 1] \o promptPart(messages[i])
    IN  prompt[Len(messages)] \o "Assistant:"

legacyQwenClient_buildPayload(c, req) ==
    LET prompt == IF Len(req.Messages) > 0
                  THEN buildPromptFromMessages(req.Messages)
                  ELSE ""
        par0 == [max_tokens |-> qwenClient_getMaxTokens(c, req.MaxTokens)]
        par1 == PutParam(par0, "temperature", req.Temperature,
                         c.config.DefaultTemperature)
        par2 == PutParam(par1, "top_p", req.TopP, c.config.DefaultTopP)
        par3 == PutParam(par2, "top_k", req.TopK, c.config.DefaultTopK)
    IN  [model |-> getModel(c, req.Model), input |-> [prompt |-> prompt],
         parameters |-> par3]

\* c.buildPayload(request), by the dynamic type of c
buildPayload(c, req) ==
    CASE c.kind = "openAIClient" -> openAIClient_buildPayload(c, req)
      [] c.kind = "azureClient" -> azureClient_buildPayload(c, req)
      [] c.kind = "qwenClient" -> qwenClient_buildPayload(c, req)
      [] c.kind = "cohereClient" -> cohereClient_buildPayload(c, req)
      [] c.kind = "legacyQwenClient" -> legacyQwenClient_buildPayload(c, req)

-----------------------------------------------------------------------------
(* The adapters and the requests buildPayload is applied to.               *)

AzureBaseURL == "https://r.openai.azure.com/openai/deployments/gpt4"

\* The constructor of each provider's adapter.
NewAdapter(cfg) ==
    IF cfg.Provider = ProviderCohere THEN newCohereClient(cfg) ELSE NewClient(cfg)

AdapterProviders == {ProviderOpenAI, ProviderQwen, ProviderAzure, ProviderCohere}

AdapterConfig(provider) ==
    [ZeroConfig EXCEPT !.Provider = provider, !.APIKey = "test-key",
                       !.BaseURL = IF provider = ProviderAzure
                                   THEN AzureBaseURL ELSE ""]

PayloadConfigs ==
    {[AdapterConfig(provider) EXCEPT !.DefaultTemperature = t,
                                     !.DefaultMaxTokens = mt,
                                     !.DefaultTopP = tp, !.DefaultTopK = tk] :
        provider \in AdapterProviders, t \in {Nil, Ptr(7)}, mt \in {Nil, Ptr(100)},
        tp \in {Nil, Ptr(9)}, tk \in {Nil, Ptr(40)}}

PayloadExtraParams == {{}, {<<"enable_thinking", TRUE>>}, {<<"temperature", 10>>}}

PayloadRequests ==
    {[BuildSimpleRequest("Hello") EXCEPT !.Temperature = t, !.MaxTokens = mt,
                                         !.TopP = tp, !.TopK = tk,
                                         !.ExtraParams = ep] :
        t \in {Nil, Ptr(0), Ptr(2)}, mt \in {Nil, Ptr(0), Ptr(50)},
        tp \in {Nil, Ptr(0), Ptr(5)}, tk \in {Nil, Ptr(0), Ptr(20)},
        ep \in PayloadExtraParams}

InitPayload ==
    /\ config \in PayloadConfigs
    /\ client = NewAdapter(config).client
    /\ err = NoError
    /\ factoryOp = "NewClient"
    /\ history = ZeroChatHistory
    /\ appended = <<>>
    /\ histBefore = ZeroChatHistory
    /\ histOp = [name |-> "init"]
    /\ panicked = FALSE
    /\ request = ZeroRequest
    /\ reqBefore = ZeroRequest
    /\ reqOp = [name |-> "init"]
    /\ mem = <<>>
    /\ chatHistory = NilSlice
    /\ chatRequest = NilSlice
    /\ chatOp = [name |-> "init"]
    /\ histValue = <<>>
    /\ reqValue = <<>>
    /\ genRequest \in PayloadRequests
    /\ payload = NoPayload
    /\ pc = "idle"
    /\ callOp = [name |-> "init"]
    /\ ctx = BackgroundCtx
    /\ httpLog = <<>>
    /\ generateCalls = <<>>
    /\ reply = NoReply
    /\ result = NoResult
    /\ prevFailed = FALSE
    /\ lastHistoryCall = NoHistoryCall
    /\ inflight = <<>>
    /\ ctxDoneAt = ""

\* payload := c.buildPayload(request)
CallBuildPayload ==
    /\ payload = NoPayload
    /\ payload' = buildPayload(client, genRequest)
    /\ UNCHANGED <<genRequest, pc, callOp, ctx, httpLog, generateCalls, reply,
                   result, prevFailed,
                   lastHistoryCall, inflight, ctxDoneAt>>
    /\ UNCHANGED <<factoryVars, historyVars, requestVars, memVars>>

PayloadNext == CallBuildPayload

SpecPayload == InitPayload /\ [][PayloadNext]_vars

-----------------------------------------------------------------------------
(* buildPayload on requests of every shape: message sequences of any       *)
(* roles, in any order, with the stream flag set or cleared.               *)

MessageRoles == {RoleSystem, RoleUser, RoleAssistant, RoleFunction}
MessageContents == {"a", "b", "c"}
MessageSet == {Message(role, content) : role \in MessageRoles, content \in MessageContents}

MessageSeqs == UNION {[1..n -> MessageSet] : n \in 0..MaxMessages}

MessageRequests ==
    {[ZeroRequest EXCEPT !.Messages = messages, !.Stream = stream] :
        messages \in MessageSeqs, stream \in BOOLEAN}

\* The adapters a config with the provider tag qwen stands for: the
\* OpenAI-compatible one and the one of the text-generation endpoint.
AdaptersOf(cfg) ==
    {NewAdapter(cfg).client}
    \cup (IF cfg.Provider = ProviderQwen
          THEN {newLegacyQwenClient(cfg).client} ELSE {})

InitMessages ==
    /\ config \in {AdapterConfig(provider) : provider \in AdapterProviders}
    /\ client \in AdaptersOf(config)
    /\ err = NoError
    /\ factoryOp = "NewClient"
    /\ history = ZeroChatHistory
    /\ appended = <<>>
    /\ histBefore = ZeroChatHistory
    /\ histOp = [name |-> "init"]
    /\ panicked = FALSE
    /\ request = ZeroRequest
    /\ reqBefore = ZeroRequest
    /\ reqOp = [name |-> "init"]
    /\ mem = <<>>
    /\ chatHistory = NilSlice
    /\ chatRequest = NilSlice
    /\ chatOp = [name |-> "init"]
    /\ histValue = <<>>
    /\ reqValue = <<>>
    /\ genRequest \in MessageRequests
    /\ payload = NoPayload
    /\ pc = "idle"
    /\ callOp = [name |-> "init"]
    /\ ctx = BackgroundCtx
    /\ httpLog = <<>>
    /\ generateCalls = <<>>
    /\ reply = NoReply
    /\ result = NoResult
    /\ prevFailed = FALSE
    /\ lastHistoryCall = NoHistoryCall
    /\ inflight = <<>>
    /\ ctxDoneAt = ""

SpecMessages == InitMessages /\ [][PayloadNext]_vars

-----------------------------------------------------------------------------
(* Generate and CreateEmbedding, cut where they wait for the network:      *)
(* the part up to httpClient.Do (Prepare) and the part from the status     *)
(* check on (Complete).  ResponseTime, a wall-clock reading, is left out   *)
(* of the Response.                                                        *)

\* %d of a status code
Digit(d) == SubSeq("0123456789", d + 1, d + 1)
RECURSIVE Itoa(_)
Itoa(n) == IF n < 10 THEN Digit(n) ELSE Itoa(n \div 10) \o Digit(n % 10)

\* %q of a URL inside the error http.Client.Do returns
Quote(str) == "\"" \o str \o "\""

\* A caller-supplied ExtraParams value encoding/json cannot encode.
GoChannel == "make(chan int)"

\* json.Marshal(payload) fails only on a value of ExtraParams: every other
\* value buildPayload stores is a string, a number, a bool or a slice of
\* maps of strings.
jsonMarshalFails(req) == \E kv \in req.ExtraParams : kv[2] = GoChannel

\* url.Parse rejects a URL that begins with a colon.
NewRequestFails(url) == Len(url) > 0 /\ SubSeq(url, 1, 1) = ":"

chatURL(c) ==
    CASE c.kind = "openAIClient" -> c.config.BaseURL \o "/chat/completions"
      [] c.kind = "qwenClient" -> c.config.BaseURL \o "/chat/completions"
      [] c.kind = "azureClient" ->
            c.config.BaseURL \o "/chat/completions?api-version=2023-12-01-preview"
      [] c.kind = "cohereClient" -> c.config.BaseURL \o "/chat"

chatHeader(c) ==
    CASE c.kind = "openAIClient" ->
            {<<"Content-Type", "application/json">>,
             <<"Authorization", "Bearer " \o c.config.APIKey>>}
      [] c.kind = "qwenClient" ->
            {<<"Content-Type", "application/json">>,
             <<"Authorization", "Bearer " \o c.config.APIKey>>,
             <<"X-DashScope-SSE", "disable">>}
      [] c.kind = "azureClient" ->
            {<<"Content-Type", "application/json">>,
             <<"api-key", c.config.APIKey>>}
      [] c.kind = "cohereClient" ->
            {<<"Content-Type", "application/json">>,
             <<"Authorization", "Bearer " \o c.config.APIKey>>}

\* The context the HTTP request is bound to.
RequestContext_Background(cx) == BackgroundCtx

RequestContext(cx) == cx

NoHTTPRequest == [method |-> "", url |-> "", header |-> {}, body |-> NoPayload]

\* Generate up to the call of c.httpClient.Do: the request to send, or the
\* error Generate returns without sending anything.
GeneratePrepare(c, req) ==
    LET body == buildPayload(c, req)
        url == chatURL(c)
    IN  IF jsonMarshalFails(req)
        THEN [err |-> "failed to marshal request: json: unsupported type: chan int",
              payload |-> body, httpRequest |-> NoHTTPRequest]
        ELSE IF NewRequestFails(url)
        THEN [err |-> "failed to create request: parse " \o Quote(url)
                        \o ": missing protocol scheme",
              payload |-> body, httpRequest |-> NoHTTPRequest]
        ELSE [err |-> NoError, payload |-> body,
              httpRequest |-> [method |-> "POST", url |-> url,
                               header |-> chatHeader(c), body |-> body]]

\* The replies of the model and what encoding/json makes of them.
EmptyObject == [k \in {} |-> k]
ChatBody ==
    "{\"choices\":[{\"message\":{\"role\":\"assistant\",\"content\":\"pong\"},"
    \o "\"finish_reason\":\"stop\"}],\"usage\":{\"total_tokens\":5}}"
CohereBody ==
    "{\"text\":\"pong\",\"finish_reason\":\"COMPLETE\","
    \o "\"meta\":{\"billed_units\":{\"input_tokens\":2,\"output_tokens\":3}}}"
EmbedBody == "{\"embeddings\":[[1,2]],\"meta\":{\"billed_units\":{\"input_tokens\":2}}}"
TwoChoicesBody ==
    "{\"choices\":[{\"message\":{\"role\":\"assistant\",\"content\":\"pong\"},"
    \o "\"finish_reason\":\"stop\"},{\"message\":{\"role\":\"tool\",\"content\":\"ping\"},"
    \o "\"finish_reason\":\"length\"}],\"usage\":{\"total_tokens\":7}}"

jsonValid(text) ==
    text \in {"{}", "{\"choices\":[]}", "{\"embeddings\":[]}",
              ChatBody, CohereBody, EmbedBody, TwoChoicesBody}

jsonSyntaxError(text) ==
    IF text = "" THEN "unexpected end of JSON input"
    ELSE "invalid character " \o "'" \o SubSeq(text, 1, 1) \o "'"
         \o " looking for beginning of value"

jsonValue(text) ==
    CASE text = "{}" -> EmptyObject
      [] text = "{\"choices\":[]}" -> [choices |-> <<>>]
      [] text = "{\"embeddings\":[]}" -> [embeddings |-> <<>>]
      [] text = ChatBody ->
            [choices |-> <<[message |-> [role |-> "assistant", content |-> "pong"],
                            finish_reason |-> "stop"]>>,
             usage |-> [total_tokens |-> 5]]
      [] text = CohereBody ->
            [text |-> "pong", finish_reason |-> "COMPLETE",
             meta |-> [billed_units |-> [input_tokens |-> 2, output_tokens |-> 3]]]
      [] text = EmbedBody ->
            [embeddings |-> << <<1, 2>> >>,
             meta |-> [billed_units |-> [input_tokens |-> 2]]]
      [] text = TwoChoicesBody ->
            [choices |-> <<[message |-> [role |-> "assistant", content |-> "pong"],
                            finish_reason |-> "stop"],
                           [message |-> [role |-> "tool", content |-> "ping"],
                            finish_reason |-> "length"]>>,
             usage |-> [total_tokens |-> 7]]

\* The member of a decoded object, the zero value when it is missing.
Get(obj, key, zero) == IF key \in DOMAIN obj THEN obj[key] ELSE zero

\* json.Unmarshal into the apiResp struct of the OpenAI, Azure and Qwen clients
chatAPIResp(value) ==
    LET choices == Get(value, "choices", <<>>)
    IN  [Choices |->
            [i \in 1..Len(choices) |->
                [Message |->
                    [Role |-> Get(Get(choices[i], "message", EmptyObject), "role", ""),
                     Content |-> Get(Get(choices[i], "message", EmptyObject),
                                     "content", "")],
                 FinishReason |-> Get(choices[i], "finish_reason", "")]],
         Usage |-> [TotalTokens |->
                        Get(Get(value, "usage", EmptyObject), "total_tokens", 0)]]

\* json.Unmarshal into the apiResp struct of cohereClient.Generate
cohereAPIResp(value) ==
    LET units == Get(Get(value, "meta", EmptyObject), "billed_units", EmptyObject)
    IN  [Text |-> Get(value, "text", ""),
         FinishReason |-> Get(value, "finish_reason", ""),
         InputTokens |-> Get(units, "input_tokens", 0),
         OutputTokens |-> Get(units, "output_tokens", 0)]

apiErrorName(c) ==
    CASE c.kind = "openAIClient" -> "LLM API error "
      [] c.kind = "qwenClient" -> "Qwen API error "
      [] c.kind = "azureClient" -> "Azure OpenAI API error "
      [] c.kind = "cohereClient" -> "Cohere API error "

noChoicesError(c) ==
    CASE c.kind = "openAIClient" -> "no choices in LLM response"
      [] c.kind = "qwenClient" -> "no choices in response"
      [] c.kind = "azureClient" -> "no choices in Azure OpenAI response"

Returned(response) == [response |-> Ptr(response), err |-> NoError]
ReturnedError(e) == [response |-> Nil, err |-> e]

ErrUnmarshal(text) == "failed to unmarshal response: " \o jsonSyntaxError(text)

chatResponse_LastChoice(c, apiResp) ==
    [Content |-> apiResp.Choices[Len(apiResp.Choices)].Message.Content,
     Role |-> IF c.kind = "qwenClient" THEN RoleAssistant
              ELSE apiResp.Choices[Len(apiResp.Choices)].Message.Role,
     TokensUsed |-> apiResp.Usage.TotalTokens,
     FinishReason |-> IF c.kind = "qwenClient" THEN ""
                      ELSE apiResp.Choices[Len(apiResp.Choices)].FinishReason,
     Stream |-> Nil]

chatResponse(c, apiResp) ==
    [Content |-> apiResp.Choices[1].Message.Content,
     Role |-> IF c.kind = "qwenClient" THEN RoleAssistant
              ELSE apiResp.Choices[1].Message.Role,
     TokensUsed |-> apiResp.Usage.TotalTokens,
     FinishReason |-> IF c.kind = "qwenClient" THEN ""
                      ELSE apiResp.Choices[1].FinishReason,
     Stream |-> Nil]

GenerateComplete_DecodesFirst(c, status, body) ==
    IF ~jsonValid(body) THEN ReturnedError(ErrUnmarshal(body))
    ELSE IF status < 200 \/ status >= 300
    THEN ReturnedError(apiErrorName(c) \o Itoa(status) \o ": " \o body)
    ELSE IF c.kind = "cohereClient"
    THEN LET apiResp == cohereAPIResp(jsonValue(body))
         IN  Returned([Content |-> apiResp.Text, Role |-> RoleAssistant,
                       TokensUsed |-> apiResp.InputTokens + apiResp.OutputTokens,
                       FinishReason |-> apiResp.FinishReason, Stream |-> Nil])
    ELSE LET apiResp == chatAPIResp(jsonValue(body))
         IN  IF Len(apiResp.Choices) = 0
             THEN ReturnedError(noChoicesError(c))
             ELSE Returned(chatResponse(c, apiResp))

GenerateComplete_EmptyResponse(c, status, body) ==
    IF status < 200 \/ status >= 300
    THEN ReturnedError(apiErrorName(c) \o Itoa(status) \o ": " \o body)
    ELSE IF ~jsonValid(body) THEN ReturnedError(ErrUnmarshal(body))
    ELSE IF c.kind = "cohereClient"
    THEN LET apiResp == cohereAPIResp(jsonValue(body))
         IN  Returned([Content |-> apiResp.Text, Role |-> RoleAssistant,
                       TokensUsed |-> apiResp.InputTokens + apiResp.OutputTokens,
                       FinishReason |-> apiResp.FinishReason, Stream |-> Nil])
    ELSE LET apiResp == chatAPIResp(jsonValue(body))
         IN  IF Len(apiResp.Choices) = 0
             THEN Returned([Content |-> "", Role |-> RoleAssistant,
                            TokensUsed |-> apiResp.Usage.TotalTokens,
                            FinishReason |-> "", Stream |-> Nil])
             ELSE Returned(chatResponse(c, apiResp))

\* Generate from the status check on, given the status and the body read.
GenerateComplete(c, status, body) ==
    IF status < 200 \/ status >= 300
    THEN ReturnedError(apiErrorName(c) \o Itoa(status) \o ": " \o body)
    ELSE IF ~jsonValid(body) THEN ReturnedError(ErrUnmarshal(body))
    ELSE IF c.kind = "cohereClient"
    THEN LET apiResp == cohereAPIResp(jsonValue(body))
         IN  Returned([Content |-> apiResp.Text, Role |-> RoleAssistant,
                       TokensUsed |-> apiResp.InputTokens + apiResp.OutputTokens,
                       FinishReason |-> apiResp.FinishReason, Stream |-> Nil])
    ELSE LET apiResp == chatAPIResp(jsonValue(body))
         IN  IF Len(apiResp.Choices) = 0
             THEN ReturnedError(noChoicesError(c))
             ELSE Returned(chatResponse(c, apiResp))

\* cohereClient.CreateEmbedding: the model it asks for
embeddingModel(c, ereq) ==
    IF ereq.Model # Nil THEN ereq.Model[1]
    ELSE IF c.config.DefaultModel # "" THEN c.config.DefaultModel
    ELSE "embed-multilingual-v3.0"

ErrAzureEmbeddings == "embeddings not supported for Azure provider yet"

\* The CreateEmbedding stub of the Qwen adapter, as the change log
\* describes it: it returns a "not supported yet" error.
ErrQwenEmbeddings == "embeddings not supported for Qwen provider yet"

EmbedRequestOf(c, ereq) ==
    LET body == [model |-> embeddingModel(c, ereq), texts |-> ereq.Input,
                 input_type |-> "search_document"]
    IN  [err |-> NoError, payload |-> body,
         httpRequest |-> [method |-> "POST", url |-> c.config.BaseURL \o "/embed",
                          header |-> chatHeader(c), body |-> body]]

CreateEmbeddingPrepare_AzureSends(c, ereq) ==
    IF c.kind = "qwenClient"
    THEN [err |-> ErrQwenEmbeddings, payload |-> NoPayload,
          httpRequest |-> NoHTTPRequest]
    ELSE EmbedRequestOf(c, ereq)

\* CreateEmbedding up to the call of c.httpClient.Do.
CreateEmbeddingPrepare(c, ereq) ==
    IF c.kind = "qwenClient"
    THEN [err |-> ErrQwenEmbeddings, payload |-> NoPayload,
          httpRequest |-> NoHTTPRequest]
    ELSE IF c.kind = "azureClient"
    THEN [err |-> ErrAzureEmbeddings, payload |-> NoPayload,
          httpRequest |-> NoHTTPRequest]
    ELSE LET body == [model |-> embeddingModel(c, ereq), texts |-> ereq.Input,
                      input_type |-> "search_document"]
             url == c.config.BaseURL \o "/embed"
         IN  IF NewRequestFails(url)
             THEN [err |-> "failed to create embedding request: parse "
                             \o Quote(url) \o ": missing protocol scheme",
                   payload |-> body, httpRequest |-> NoHTTPRequest]
             ELSE [err |-> NoError, payload |-> body,
                   httpRequest |-> [method |-> "POST", url |-> url,
                                    header |-> chatHeader(c), body |-> body]]

\* cohereClient.CreateEmbedding from the status check on.
CreateEmbeddingComplete(c, ereq, status, body) ==
    IF status < 200 \/ status >= 300
    THEN ReturnedError("Cohere Embedding API error " \o Itoa(status) \o ": " \o body)
    ELSE IF ~jsonValid(body)
    THEN ReturnedError("failed to unmarshal embedding response: "
                       \o jsonSyntaxError(body))
    ELSE LET value == jsonValue(body)
             embeddings == Get(value, "embeddings", <<>>)
             units == Get(Get(value, "meta", EmptyObject), "billed_units", EmptyObject)
         IN  IF Len(embeddings) = 0
             THEN ReturnedError("no embeddings in response")
             ELSE Returned([Embeddings |-> embeddings,
                            Model |-> embeddingModel(c, ereq),
                            TokensUsed |-> Get(units, "input_tokens", 0)])

\* GenerateWithHistory up to its call of Generate, on the caller's memory.
\* The ChatHistory arrives by value: the callee reads the caller's array
\* through its own copy of the slice header and builds the request apart.
GenerateWithHistoryPrepare_StoresUserMessage(m, h, userMessage, systemPrompt, spare) ==
    LET stored == AddMessageMem(m, h, RoleUser, userMessage, spare)
        sys == IF systemPrompt # ""
               THEN RequestAddSystemMessageMem(stored.mem, stored.slice,
                                               systemPrompt, spare)
               ELSE stored
    IN  [mem |-> sys.mem, history |-> stored.slice, request |-> sys.slice]

GenerateWithHistoryPrepare_AlwaysSystem(m, h, userMessage, systemPrompt, spare) ==
    LET built == BuildChatRequestMem(m, h, userMessage, spare)
        sys == RequestAddSystemMessageMem(built.mem, built.slice, systemPrompt, spare)
    IN  [mem |-> sys.mem, history |-> h, request |-> sys.slice]

GenerateWithHistoryPrepare_KeepsRequest(m, h, userMessage, systemPrompt, spare) ==
    LET built == BuildChatRequestMem(m, h, userMessage, spare)
        sys == IF systemPrompt # ""
               THEN RequestAddSystemMessageMem(built.mem, built.slice,
                                               systemPrompt, spare)
               ELSE built
    IN  [mem |-> sys.mem, history |-> sys.slice, request |-> sys.slice]

GenerateWithHistoryPrepare(m, h, userMessage, systemPrompt, spare) ==
    LET built == BuildChatRequestMem(m, h, userMessage, spare)
        sys == IF systemPrompt # ""
               THEN RequestAddSystemMessageMem(built.mem, built.slice,
                                               systemPrompt, spare)
               ELSE built
    IN  [mem |-> sys.mem, history |-> h, request |-> sys.slice]

\* A request lives for one call: when the next call starts, only the array
\* of the caller's history is still in use.
Collect(m, h) ==
    IF h.arr = 0 THEN [mem |-> <<>>, slice |-> h]
    ELSE [mem |-> <<m[h.arr]>>, slice |-> [h EXCEPT !.arr = 1]]

\* What a call is left with when its Prepare part ends.
StartOutcome(prep) ==
    IF prep.err # NoError
    THEN [pc |-> "done", result |-> ReturnedError(prep.err), httpLog |-> <<>>]
    ELSE [pc |-> "sending", result |-> NoResult, httpLog |-> <<prep.httpRequest>>]

\* resp, err := c.httpClient.Do(req); if err != nil { return nil, ... }
AfterDoError_Retries(log, name, e) ==
    IF Len(log) < 2
    THEN [pc |-> "sending", result |-> NoResult, httpLog |-> Append(log, log[1])]
    ELSE [pc |-> "done", httpLog |-> log,
          result |-> ReturnedError(
              (IF name = "CreateEmbedding" THEN "failed to send embedding request: "
               ELSE "failed to send request: ") \o e)]

AfterDoError(log, name, e) ==
    [pc |-> "done", httpLog |-> log,
     result |-> ReturnedError(
         (IF name = "CreateEmbedding" THEN "failed to send embedding request: "
          ELSE "failed to send request: ") \o e)]

\* body, err := io.ReadAll(resp.Body); if err != nil { return nil, ... }
AfterReadError(name, e) ==
    ReturnedError((IF name = "CreateEmbedding"
                   THEN "failed to read embedding response: "
                   ELSE "failed to read response: ") \o e)

\* The error of http.Client.Do: a *url.Error naming the method and the URL.
urlError(log, e) == "Post " \o Quote(log[1].url) \o ": " \o e

ErrCanceled == "context canceled"
ErrDeadlineExceeded == "context deadline exceeded"
ErrClientTimeout(at) ==
    IF at = "sending"
    THEN "context deadline exceeded (Client.Timeout exceeded while awaiting headers)"
    ELSE "context deadline exceeded (Client.Timeout or context cancellation while reading body)"

-----------------------------------------------------------------------------
(* Calls on an adapter: the caller starts Generate, GenerateWithHistory    *)
(* or CreateEmbedding; the network and the clocks decide what              *)
(* httpClient.Do and io.ReadAll return.  net/http is modelled by its       *)
(* contract: the request's context governs the whole round trip, and       *)
(* Client.Timeout bounds it when it is positive.                           *)

CallConfigs ==
    {AdapterConfig(provider) : provider \in AdapterProviders}
    \cup {[AdapterConfig(ProviderOpenAI) EXCEPT !.Timeout = t] : t \in {-1, 10}}
    \cup {[AdapterConfig(ProviderOpenAI) EXCEPT !.BaseURL = ":"]}

CallRequests ==
    {BuildSimpleRequest("Hello"),
     [BuildSimpleRequest("Hello") EXCEPT !.ExtraParams = {<<"callback", GoChannel>>}]}

EmbeddingRequests ==
    {[Input |-> <<"Hello">>, Model |-> Nil],
     [Input |-> <<"Hello", "Hi!">>, Model |-> Nil]}

Contexts ==
    {BackgroundCtx,
     [kind |-> "WithCancel", err |-> NoError],
     [kind |-> "WithCancel", err |-> ErrCanceled],
     [kind |-> "WithTimeout", err |-> NoError]}

Statuses == {199, 200, 299, 300, 429}

Bodies ==
    {"", "rate limited", "{}", "{\"choices\":[]}", "{\"embeddings\":[]}",
     ChatBody, CohereBody, EmbedBody, TwoChoicesBody}

\* The histories a caller holds when it starts calling: none, or two
\* messages in an array with or without room to spare.
CallHistories ==
    {[mem |-> <<>>, slice |-> NilSlice, value |-> <<>>]}
    \cup {[mem |-> <<<<Message(RoleUser, "Hello"), Message(RoleAssistant, "Hi!")>>
                     \o ZeroArray(spare)>>,
           slice |-> [arr |-> 1, len |-> 2],
           value |-> <<Message(RoleUser, "Hello"), Message(RoleAssistant, "Hi!")>>] :
            spare \in Spares}

InitCall ==
    /\ config \in CallConfigs
    /\ client = NewAdapter(config).client
    /\ err = NoError
    /\ factoryOp = "NewClient"
    /\ history = ZeroChatHistory
    /\ appended = <<>>
    /\ histBefore = ZeroChatHistory
    /\ histOp = [name |-> "init"]
    /\ panicked = FALSE
    /\ request = ZeroRequest
    /\ reqBefore = ZeroRequest
    /\ reqOp = [name |-> "init"]
    /\ \E h \in CallHistories :
          /\ mem = h.mem
          /\ chatHistory = h.slice
          /\ histValue = h.value
    /\ chatRequest = NilSlice
    /\ chatOp = [name |-> "init"]
    /\ reqValue = <<>>
    /\ genRequest = ZeroRequest
    /\ payload = NoPayload
    /\ pc = "idle"
    /\ callOp = [name |-> "init"]
    /\ ctx = BackgroundCtx
    /\ httpLog = <<>>
    /\ generateCalls = <<>>
    /\ reply = NoReply
    /\ result = NoResult
    /\ prevFailed = FALSE
    /\ lastHistoryCall = NoHistoryCall
    /\ inflight = <<>>
    /\ ctxDoneAt = ""

\* resp, err := client.Generate(cx, req)
CallGenerate ==
    \E req \in CallRequests, cx \in Contexts :
        LET prep == GeneratePrepare(client, req)
            o == StartOutcome(prep)
        IN  /\ pc = "idle"
            /\ callOp' = [name |-> "Generate"]
            /\ genRequest' = req
            /\ generateCalls' = <<req>>
            /\ payload' = prep.payload
            /\ ctx' = cx
            /\ ctxDoneAt' = IF cx.err # NoError THEN "start" ELSE ""
            /\ pc' = o.pc
            /\ result' = o.result
            /\ httpLog' = o.httpLog
            /\ reply' = NoReply
            /\ UNCHANGED <<prevFailed, lastHistoryCall, inflight>>
            /\ UNCHANGED <<factoryVars, historyVars, requestVars, memVars>>

\* resp, err := client.GenerateWithHistory(cx, history, userMessage, systemPrompt)
\* and the package's GenerateWithHistory(cx, client, history, userMessage,
\* systemPrompt): the same three statements.
CallGenerateWithHistory ==
    \E userMessage \in UserMessages, systemPrompt \in SystemPrompts \cup {""},
       cx \in Contexts, spare \in Spares,
       name \in {"GenerateWithHistory", "llm.GenerateWithHistory"} :
        LET live == Collect(mem, chatHistory)
            built == GenerateWithHistoryPrepare(live.mem, live.slice, userMessage,
                                                systemPrompt, spare)
            req == [ZeroRequest EXCEPT !.Messages = Elems(built.mem, built.request)]
            prep == GeneratePrepare(client, req)
            o == StartOutcome(prep)
        IN  /\ pc = "idle"
            /\ callOp' = [name |-> name, userMessage |-> userMessage,
                          systemPrompt |-> systemPrompt]
            /\ mem' = built.mem
            /\ chatHistory' = built.history
            /\ chatRequest' = built.request
            /\ chatOp' = [name |-> name]
            /\ genRequest' = req
            /\ generateCalls' = <<req>>
            /\ payload' = prep.payload
            /\ ctx' = cx
            /\ ctxDoneAt' = IF cx.err # NoError THEN "start" ELSE ""
            /\ pc' = o.pc
            /\ result' = o.result
            /\ httpLog' = o.httpLog
            /\ reply' = NoReply
            /\ UNCHANGED <<prevFailed, lastHistoryCall, inflight>>
            /\ reqValue' = (IF systemPrompt # ""
                             THEN RequestAddSystemMessage(
                                      BuildChatRequest(histValue, userMessage),
                                      systemPrompt)
                             ELSE BuildChatRequest(histValue, userMessage)).Messages
            /\ UNCHANGED histValue
            /\ UNCHANGED <<factoryVars, historyVars, requestVars>>

\* resp, err := client.CreateEmbedding(cx, ereq), on the adapters whose
\* CreateEmbedding the sources hold or describe
CallCreateEmbedding ==
    \E ereq \in EmbeddingRequests, cx \in Contexts :
        LET prep == CreateEmbeddingPrepare(client, ereq)
            o == StartOutcome(prep)
        IN  /\ pc = "idle"
            /\ client.kind \in {"qwenClient", "azureClient", "cohereClient"}
            /\ callOp' = [name |-> "CreateEmbedding", request |-> ereq]
            /\ payload' = prep.payload
            /\ ctx' = cx
            /\ ctxDoneAt' = IF cx.err # NoError THEN "start" ELSE ""
            /\ pc' = o.pc
            /\ result' = o.result
            /\ httpLog' = o.httpLog
            /\ reply' = NoReply
            /\ generateCalls' = <<>>
            /\ genRequest' = ZeroRequest
            /\ UNCHANGED <<prevFailed, lastHistoryCall, inflight>>
            /\ UNCHANGED <<factoryVars, historyVars, requestVars, memVars>>

\* The caller cancels the context it passed.
CancelCtx ==
    /\ pc \in {"sending", "reading"}
    /\ ctx.kind \in {"WithCancel", "WithTimeout"}
    /\ ctx.err = NoError
    /\ ctx' = [ctx EXCEPT !.err = ErrCanceled]
    /\ ctxDoneAt' = pc
    /\ UNCHANGED <<genRequest, payload, pc, callOp, httpLog, generateCalls, reply,
                   result, prevFailed, lastHistoryCall,
                   inflight>>
    /\ UNCHANGED <<factoryVars, historyVars, requestVars, memVars>>

\* The deadline of the context passes.
CtxDeadlineExpires ==
    /\ pc \in {"sending", "reading"}
    /\ ctx.kind = "WithTimeout"
    /\ ctx.err = NoError
    /\ ctx' = [ctx EXCEPT !.err = ErrDeadlineExceeded]
    /\ ctxDoneAt' = pc
    /\ UNCHANGED <<genRequest, payload, pc, callOp, httpLog, generateCalls, reply,
                   result, prevFailed, lastHistoryCall,
                   inflight>>
    /\ UNCHANGED <<factoryVars, historyVars, requestVars, memVars>>

\* httpClient.Do returns the response: status line and headers have arrived.
DoReturnsResponse ==
    \E status \in Statuses :
        /\ pc = "sending"
        /\ RequestContext(ctx).err = NoError
        /\ pc' = "reading"
        /\ reply' = [status |-> status, body |-> "", complete |-> FALSE]
        /\ UNCHANGED <<genRequest, payload, callOp, ctx, httpLog, generateCalls,
                       result, prevFailed,
                   lastHistoryCall, inflight, ctxDoneAt>>
        /\ UNCHANGED <<factoryVars, historyVars, requestVars, memVars>>

\* httpClient.Do returns a network error.
DoFails ==
    LET o == AfterDoError(httpLog, callOp.name,
                          urlError(httpLog, "dial tcp: connection refused"))
    IN  /\ pc = "sending"
        /\ RequestContext(ctx).err = NoError
        /\ pc' = o.pc
        /\ result' = o.result
        /\ httpLog' = o.httpLog
        /\ UNCHANGED <<genRequest, payload, callOp, ctx, generateCalls, reply,
                       prevFailed,
                   lastHistoryCall, inflight, ctxDoneAt>>
        /\ UNCHANGED <<factoryVars, historyVars, requestVars, memVars>>

\* httpClient.Do returns because the request's context is done.
DoReturnsCtxErr ==
    LET o == AfterDoError(httpLog, callOp.name,
                          urlError(httpLog, RequestContext(ctx).err))
    IN  /\ pc = "sending"
        /\ RequestContext(ctx).err # NoError
        /\ pc' = o.pc
        /\ result' = o.result
        /\ httpLog' = o.httpLog
        /\ UNCHANGED <<genRequest, payload, callOp, ctx, generateCalls, reply,
                       prevFailed,
                   lastHistoryCall, inflight, ctxDoneAt>>
        /\ UNCHANGED <<factoryVars, historyVars, requestVars, memVars>>

\* io.ReadAll returns the whole body and the call runs to its return.
ReadAllReturns ==
    \E body \in Bodies :
        /\ pc = "reading"
        /\ RequestContext(ctx).err = NoError
        /\ pc' = "done"
        /\ reply' = [status |-> reply.status, body |-> body, complete |-> TRUE]
        /\ result' = IF callOp.name = "CreateEmbedding"
                     THEN CreateEmbeddingComplete(client, callOp.request,
                                                  reply.status, body)
                     ELSE GenerateComplete(client, reply.status, body)
        /\ UNCHANGED <<genRequest, payload, callOp, ctx, httpLog, generateCalls,
                       prevFailed,
                   lastHistoryCall, inflight, ctxDoneAt>>
        /\ UNCHANGED <<factoryVars, historyVars, requestVars, memVars>>

\* io.ReadAll returns a network error: the connection broke inside the body.
ReadAllFails ==
    /\ pc = "reading"
    /\ RequestContext(ctx).err = NoError
    /\ pc' = "done"
    /\ result' = AfterReadError(callOp.name, "unexpected EOF")
    /\ UNCHANGED <<genRequest, payload, callOp, ctx, httpLog, generateCalls, reply,
                   prevFailed,
                   lastHistoryCall, inflight, ctxDoneAt>>
    /\ UNCHANGED <<factoryVars, historyVars, requestVars, memVars>>

\* io.ReadAll returns because the request's context is done.
ReadAllReturnsCtxErr ==
    /\ pc = "reading"
    /\ RequestContext(ctx).err # NoError
    /\ pc' = "done"
    /\ result' = AfterReadError(callOp.name, RequestContext(ctx).err)
    /\ UNCHANGED <<genRequest, payload, callOp, ctx, httpLog, generateCalls, reply,
                   prevFailed,
                   lastHistoryCall, inflight, ctxDoneAt>>
    /\ UNCHANGED <<factoryVars, historyVars, requestVars, memVars>>

\* The timer of http.Client{Timeout: c.config.Timeout} fires; a Timeout that
\* is not positive arms no timer.
ClientTimeoutFires ==
    LET o == AfterDoError(httpLog, callOp.name,
                          urlError(httpLog, ErrClientTimeout("sending")))
    IN  /\ pc \in {"sending", "reading"}
        /\ client.httpTimeout > 0
        /\ pc' = IF pc = "sending" THEN o.pc ELSE "done"
        /\ result' = IF pc = "sending" THEN o.result
                     ELSE AfterReadError(callOp.name, ErrClientTimeout("reading"))
        /\ httpLog' = IF pc = "sending" THEN o.httpLog ELSE httpLog
        /\ UNCHANGED <<genRequest, payload, callOp, ctx, generateCalls, reply,
                       prevFailed,
                   lastHistoryCall, inflight, ctxDoneAt>>
        /\ UNCHANGED <<factoryVars, historyVars, requestVars, memVars>>

\* func (c *openAIClient) GetConfig() Config { return c.config }, the same in
\* every adapter: the caller gets a copy of the adapter's config.
GetConfig_HidesAPIKey(c) == [c.config EXCEPT !.APIKey = ""]

GetConfig(c) == c.config

\* func (c *openAIClient) Close() error { return nil }, the same in every
\* adapter.
Close(c) == NoError

\* cfg := client.GetConfig()
CallGetConfig ==
    /\ pc = "idle"
    /\ callOp' = [name |-> "GetConfig"]
    /\ result' = [response |-> Ptr(GetConfig(client)), err |-> NoError]
    /\ pc' = "done"
    /\ UNCHANGED <<genRequest, payload, ctx, httpLog, generateCalls, reply,
                   prevFailed,
                   lastHistoryCall, inflight, ctxDoneAt>>
    /\ UNCHANGED <<factoryVars, historyVars, requestVars, memVars>>

\* err := client.Close()
CallClose ==
    /\ pc = "idle"
    /\ callOp' = [name |-> "Close"]
    /\ result' = [response |-> Nil, err |-> Close(client)]
    /\ pc' = "done"
    /\ UNCHANGED <<genRequest, payload, ctx, httpLog, generateCalls, reply,
                   prevFailed,
                   lastHistoryCall, inflight, ctxDoneAt>>
    /\ UNCHANGED <<factoryVars, historyVars, requestVars, memVars>>

\* The call returns to its caller, which may call again.
Return ==
    /\ pc = "done"
    /\ pc' = "idle"
    /\ prevFailed' = (result.err # NoError)
    /\ lastHistoryCall' = IF "userMessage" \in DOMAIN callOp
                          THEN [userMessage |-> callOp.userMessage,
                                systemPrompt |-> callOp.systemPrompt,
                                messages |-> genRequest.Messages]
                          ELSE lastHistoryCall
    /\ UNCHANGED inflight
    /\ genRequest' = ZeroRequest
    /\ payload' = NoPayload
    /\ callOp' = [name |-> "init"]
    /\ ctx' = BackgroundCtx
    /\ httpLog' = <<>>
    /\ generateCalls' = <<>>
    /\ reply' = NoReply
    /\ result' = NoResult
    /\ ctxDoneAt' = ""
    /\ UNCHANGED <<factoryVars, historyVars, requestVars, memVars>>

CallNext ==
    \/ CallGenerate
    \/ CallGenerateWithHistory
    \/ CallCreateEmbedding
    \/ CancelCtx
    \/ CtxDeadlineExpires
    \/ DoReturnsResponse
    \/ DoFails
    \/ DoReturnsCtxErr
    \/ ReadAllReturns
    \/ ReadAllFails
    \/ ReadAllReturnsCtxErr
    \/ ClientTimeoutFires
    \/ CallGetConfig
    \/ CallClose
    \/ Return

SpecCall == InitCall /\ [][CallNext]_vars

\* The clocks run and a blocked httpClient.Do or io.ReadAll wakes up once the
\* request's context is done; the provider and the caller's cancel are free
\* never to act.
SpecCallFair ==
    /\ InitCall
    /\ [][CallNext]_vars
    /\ WF_vars(ClientTimeoutFires)
    /\ WF_vars(CtxDeadlineExpires)
    /\ WF_vars(DoReturnsCtxErr)
    /\ WF_vars(ReadAllReturnsCtxErr)

-----------------------------------------------------------------------------
(* Generate calls that run at the same time on one adapter, one goroutine  *)
(* each.  A call's request, payload, HTTP request, reply and result are    *)
(* locals of its Generate; the adapter is the only thing the calls share.  *)
(* http.Client.Do hands each call the reply to its own request.  A context *)
(* that ends and the client's timer end a call as a transport error does.  *)

\* The goroutines that call Generate.
MaxConcurrent == 2
Goroutines == 1..MaxConcurrent

NotCalling ==
    [pc |-> "idle", request |-> ZeroRequest, payload |-> NoPayload,
     httpRequest |-> NoHTTPRequest, reply |-> NoReply, result |-> NoResult]

ConcurrentRequests ==
    {BuildSimpleRequest("Hello"),
     SetModel(SetTemperature(BuildSimpleRequest("Hi!"), 2), "model-b")}
ConcurrentStatuses == {200, 429}
ConcurrentBodies == {ChatBody, CohereBody, "rate limited"}

\* The adapter after Generate ran on it up to c.httpClient.Do: Generate
\* reads c.config and c.httpClient and assigns no field of c.
AdapterAfterGenerate_KeepsModel(c, req) ==
    [c EXCEPT !.config.DefaultModel = getModel(c, req.Model)]

AdapterAfterGenerate(c, req) == c

InitConcurrent ==
    /\ config \in {AdapterConfig(provider) : provider \in AdapterProviders}
    /\ client = NewAdapter(config).client
    /\ err = NoError
    /\ factoryOp = "NewClient"
    /\ history = ZeroChatHistory
    /\ appended = <<>>
    /\ histBefore = ZeroChatHistory
    /\ histOp = [name |-> "init"]
    /\ panicked = FALSE
    /\ request = ZeroRequest
    /\ reqBefore = ZeroRequest
    /\ reqOp = [name |-> "init"]
    /\ mem = <<>>
    /\ chatHistory = NilSlice
    /\ chatRequest = NilSlice
    /\ chatOp = [name |-> "init"]
    /\ histValue = <<>>
    /\ reqValue = <<>>
    /\ genRequest = ZeroRequest
    /\ payload = NoPayload
    /\ pc = "idle"
    /\ callOp = [name |-> "init"]
    /\ ctx = BackgroundCtx
    /\ httpLog = <<>>
    /\ generateCalls = <<>>
    /\ reply = NoReply
    /\ result = NoResult
    /\ prevFailed = FALSE
    /\ lastHistoryCall = NoHistoryCall
    /\ inflight = [g \in Goroutines |-> NotCalling]
    /\ ctxDoneAt = ""

\* go client.Generate(ctx, req), up to c.httpClient.Do
GoGenerate ==
    \E g \in Goroutines, req \in ConcurrentRequests :
        LET prep == GeneratePrepare(client, req)
        IN  /\ inflight[g].pc = "idle"
            /\ inflight' = [inflight EXCEPT ![g] =
                   [pc |-> IF prep.err # NoError THEN "done" ELSE "sending",
                    request |-> req, payload |-> prep.payload,
                    httpRequest |-> prep.httpRequest, reply |-> NoReply,
                    result |-> IF prep.err # NoError
                               THEN ReturnedError(prep.err) ELSE NoResult]]
            /\ client' = AdapterAfterGenerate(client, req)
            /\ UNCHANGED <<config, err, factoryOp>>
            /\ UNCHANGED <<genRequest, payload, pc, callOp, ctx, httpLog,
                           generateCalls, reply, result, prevFailed,
                           lastHistoryCall, ctxDoneAt>>
            /\ UNCHANGED <<historyVars, requestVars, memVars>>

\* httpClient.Do returns the response to the goroutine's own request.
GoDoReturnsResponse ==
    \E g \in Goroutines, status \in ConcurrentStatuses :
        /\ inflight[g].pc = "sending"
        /\ inflight' = [inflight EXCEPT ![g].pc = "reading",
                                        ![g].reply = [status |-> status, body |-> "",
                                                      complete |-> FALSE]]
        /\ UNCHANGED <<genRequest, payload, pc, callOp, ctx, httpLog,
                       generateCalls, reply, result, prevFailed,
                       lastHistoryCall, ctxDoneAt>>
        /\ UNCHANGED <<factoryVars, historyVars, requestVars, memVars>>

\* httpClient.Do returns an error.
GoDoFails ==
    \E g \in Goroutines :
        LET o == AfterDoError(<<inflight[g].httpRequest>>, "Generate",
                              urlError(<<inflight[g].httpRequest>>,
                                       "dial tcp: connection refused"))
        IN  /\ inflight[g].pc = "sending"
            /\ inflight' = [inflight EXCEPT ![g].pc = o.pc, ![g].result = o.result]
            /\ UNCHANGED <<genRequest, payload, pc, callOp, ctx, httpLog,
                           generateCalls, reply, result, prevFailed,
                           lastHistoryCall, ctxDoneAt>>
            /\ UNCHANGED <<factoryVars, historyVars, requestVars, memVars>>

\* io.ReadAll returns the body and Generate runs to its return.
GoReadAllReturns ==
    \E g \in Goroutines, body \in ConcurrentBodies :
        /\ inflight[g].pc = "reading"
        /\ inflight' = [inflight EXCEPT
               ![g].pc = "done",
               ![g].reply = [status |-> inflight[g].reply.status, body |-> body,
                             complete |-> TRUE],
               ![g].result = GenerateComplete(client, inflight[g].reply.status, body)]
        /\ UNCHANGED <<genRequest, payload, pc, callOp, ctx, httpLog,
                       generateCalls, reply, result, prevFailed,
                       lastHistoryCall, ctxDoneAt>>
        /\ UNCHANGED <<factoryVars, historyVars, requestVars, memVars>>

\* io.ReadAll returns an error.
GoReadAllFails ==
    \E g \in Goroutines :
        /\ inflight[g].pc = "reading"
        /\ inflight' = [inflight EXCEPT
               ![g].pc = "done",
               ![g].result = AfterReadError("Generate", "unexpected EOF")]
        /\ UNCHANGED <<genRequest, payload, pc, callOp, ctx, httpLog,
                       generateCalls, reply, result, prevFailed,
                       lastHistoryCall, ctxDoneAt>>
        /\ UNCHANGED <<factoryVars, historyVars, requestVars, memVars>>

\* The goroutine has its result and may call again.
GoReturn ==
    \E g \in Goroutines :
        /\ inflight[g].pc = "done"
        /\ inflight' = [inflight EXCEPT ![g] = NotCalling]
        /\ UNCHANGED <<genRequest, payload, pc, callOp, ctx, httpLog,
                       generateCalls, reply, result, prevFailed,
                       lastHistoryCall, ctxDoneAt>>
        /\ UNCHANGED <<factoryVars, historyVars, requestVars, memVars>>

ConcurrentNext ==
    \/ GoGenerate
    \/ GoDoReturnsResponse
    \/ GoDoFails
    \/ GoReadAllReturns
    \/ GoReadAllFails
    \/ GoReturn

SpecConcurrent == InitConcurrent /\ [][ConcurrentNext]_vars

-----------------------------------------------------------------------------
(* The vocabulary of the properties.                                       *)

\* The provider tags the library documents.
KnownProviders ==
    {ProviderOpenAI, ProviderDeepSeek, ProviderQwen, ProviderAzure, ProviderCohere}

\* The adapter each documented provider tag stands for.
AdapterFor(provider) ==
    CASE provider \in {ProviderOpenAI, ProviderDeepSeek} -> "openAIClient"
      [] provider = ProviderQwen -> "qwenClient"
      [] provider = ProviderAzure -> "azureClient"
      [] provider = ProviderCohere -> "cohereClient"

HasPrefix(s, prefix) ==
    Len(s) >= Len(prefix) /\ SubSeq(s, 1, Len(prefix)) = prefix

\* The error taxonomy, read off the messages the constructors produce.
IsConfigurationError(e) ==
    e \in {ErrAPIKeyRequired, ErrAzureBaseURLRequired, ErrAzureDeploymentRequired}
IsUnsupportedProviderError(e) == HasPrefix(e, "unsupported LLM provider: ")

Min(a, b) == IF a < b THEN a ELSE b

\* The last k elements of s, k <= Len(s), in the order they have in s.
LastN(s, k) == [i \in 1..k |-> s[Len(s) - k + i]]

IsSuffix(s, t) ==
    /\ Len(s) <= Len(t)
    /\ \A i \in 1..Len(s) : s[i] = t[Len(t) - Len(s) + i]

-----------------------------------------------------------------------------
(* The client factory.                                                     *)

\* C1: for each of the provider tags openai, deepseek, qwen, azure and
\* cohere, and a config with a non-empty apiKey (and, for azure, a baseURL
\* containing /deployments/), NewClient returns no error and the adapter of
\* that provider; openai and deepseek both give the OpenAI-compatible adapter.
C1_NewClientDispatches ==
    ( /\ factoryOp = "NewClient"
      /\ config.Provider \in KnownProviders
      /\ config.APIKey # ""
      /\ config.Provider = ProviderAzure => Contains(config.BaseURL, "/deployments/") )
    => /\ err = NoError
       /\ client.kind = AdapterFor(config.Provider)

\* C2: for a provider tag that is none of the known ones (the empty tag
\* included), whatever the other fields, NewClient returns no client and an
\* UnsupportedProviderError.
C2_UnknownProviderRejected ==
    (factoryOp = "NewClient" /\ config.Provider \notin KnownProviders)
    => /\ client = NilClient
       /\ IsUnsupportedProviderError(err)

C2_Witness ==
    /\ factoryOp = "NewClient"
    /\ config.Provider = ""
    /\ config.APIKey # ""
    /\ config.BaseURL = ""
    /\ err = ErrUnsupportedProvider("")

\* C3: for every known provider tag, a config with an empty apiKey gives no
\* client and a ConfigurationError, whatever the other fields; for azure the
\* error is the missing key even when the baseURL is missing or malformed.
C3_EmptyAPIKeyRejected ==
    ( /\ factoryOp = "NewClient"
      /\ config.Provider \in KnownProviders
      /\ config.APIKey = "" )
    => /\ client = NilClient
       /\ IsConfigurationError(err)
       /\ config.Provider = ProviderAzure => err = ErrAPIKeyRequired

\* C4: with provider azure and a non-empty apiKey, NewClient fails, with a
\* ConfigurationError, exactly when the baseURL is empty or does not contain
\* /deployments/; otherwise it returns the Azure adapter and no error.
C4_AzureBaseURLChecked ==
    ( /\ factoryOp = "NewClient"
      /\ config.Provider = ProviderAzure
      /\ config.APIKey # "" )
    => IF config.BaseURL = "" \/ ~Contains(config.BaseURL, "/deployments/")
       THEN client = NilClient /\ IsConfigurationError(err)
       ELSE err = NoError /\ client.kind = "azureClient"

C4_Witness ==
    /\ factoryOp = "NewClient"
    /\ config.Provider = ProviderAzure
    /\ config.APIKey # ""
    /\ config.BaseURL = "https://r.openai.azure.com/openai/deployments"
    /\ client = NilClient
    /\ err = ErrAzureDeploymentRequired

C4_WitnessAccepted ==
    /\ factoryOp = "NewClient"
    /\ config.Provider = ProviderAzure
    /\ config.BaseURL = "https://r.openai.azure.com/openai/deployments/gpt4"
    /\ err = NoError
    /\ client.kind = "azureClient"

-----------------------------------------------------------------------------
(* ChatHistory.                                                            *)

AppendOps == {"AddMessage", "AddSystemMessage", "AddUserMessage", "AddAssistantMessage"}

\* C5: after Truncate(n) with n >= 0, GetMessages has min(n, length before)
\* messages, and they are the last that many messages of the history as it
\* was before, in the same order; a history of at most n messages is unchanged.
C5_TruncateKeepsLastN ==
    (histOp.name = "Truncate" /\ histOp.n >= 0)
    => LET before == GetMessages(histBefore)
           after == GetMessages(history)
       IN  /\ ~panicked
           /\ Len(after) = Min(histOp.n, Len(before))
           /\ after = LastN(before, Min(histOp.n, Len(before)))
           /\ Len(before) <= histOp.n => history = histBefore

C5_Witness ==
    /\ histOp.name = "Truncate"
    /\ histOp.n = 2
    /\ Len(GetMessages(histBefore)) = 3
    /\ GetMessages(histBefore)[1] # GetMessages(histBefore)[3]
    /\ GetMessages(history) = SubSeq(GetMessages(histBefore), 2, 3)

\* C6: whatever AddMessage (and its role-specific variants), Truncate(n >= 0)
\* and Clear calls were made, GetMessages is a contiguous suffix of the
\* messages appended since the last Clear, in append order, oldest first:
\* nothing is reordered, duplicated or altered.
C6_HistoryIsSuffixOfAppended ==
    /\ IsSuffix(GetMessages(history), appended)
    /\ histOp.name \in AppendOps =>
          /\ Len(GetMessages(history)) = Len(GetMessages(histBefore)) + 1
          /\ GetMessages(history)[Len(GetMessages(history))] =
                Message(histOp.role, histOp.content)
          /\ SubSeq(GetMessages(history), 1, Len(GetMessages(histBefore))) =
                GetMessages(histBefore)

C6_Witness ==
    /\ histOp.name \in AppendOps
    /\ Len(appended) = 3
    /\ Len(GetMessages(history)) = 2
    /\ GetMessages(history)[1] # GetMessages(history)[2]
    /\ ~panicked

\* C7: after Clear, GetMessages is empty whatever the history held; clearing
\* a cleared history leaves it empty; and the messages present afterwards are
\* only those appended after the Clear.
C7_ClearEmpties ==
    /\ histOp.name = "Clear" => GetMessages(history) = <<>>
    /\ GetMessages(Clear(history)) = <<>>
    /\ Clear(Clear(history)) = Clear(history)
    /\ (histOp.name \in AppendOps /\ GetMessages(histBefore) = <<>>) =>
          GetMessages(history) = <<Message(histOp.role, histOp.content)>>
    /\ \A i \in 1..Len(GetMessages(history)) :
          \E j \in 1..Len(appended) : GetMessages(history)[i] = appended[j]

C7_Witness ==
    /\ histOp.name = "Clear"
    /\ Len(GetMessages(histBefore)) = 3
    /\ GetMessages(histBefore)[1].Role = RoleSystem
    /\ GetMessages(history) = <<>>

-----------------------------------------------------------------------------
(* Request builders and mutators.                                          *)

\* C8: after a call of SetTemperature, SetMaxTokens, SetTopP, SetTopK,
\* SetModel or SetStreaming the field is set and holds the argument of that
\* call, whatever it held before: the last write wins.
C8_LastWriteWins ==
    /\ reqOp.name = "SetTemperature" => request.Temperature = Ptr(reqOp.arg)
    /\ reqOp.name = "SetMaxTokens" => request.MaxTokens = Ptr(reqOp.arg)
    /\ reqOp.name = "SetTopP" => request.TopP = Ptr(reqOp.arg)
    /\ reqOp.name = "SetTopK" => request.TopK = Ptr(reqOp.arg)
    /\ reqOp.name = "SetModel" => request.Model = Ptr(reqOp.arg)
    /\ reqOp.name = "SetStreaming" => request.Stream = reqOp.arg

C8_Witness ==
    /\ reqOp.name = "SetMaxTokens"
    /\ reqBefore.MaxTokens = Ptr(100)
    /\ reqOp.arg = 0
    /\ request.MaxTokens = Ptr(0)

\* C9: a call of a request mutator changes one field only: the message list,
\* extraParams and every other parameter are as they were before the call.
C9_SettersChangeOneField ==
    /\ reqOp.name = "SetTemperature" =>
          request = [reqBefore EXCEPT !.Temperature = request.Temperature]
    /\ reqOp.name = "SetMaxTokens" =>
          request = [reqBefore EXCEPT !.MaxTokens = request.MaxTokens]
    /\ reqOp.name = "SetTopP" =>
          request = [reqBefore EXCEPT !.TopP = request.TopP]
    /\ reqOp.name = "SetTopK" =>
          request = [reqBefore EXCEPT !.TopK = request.TopK]
    /\ reqOp.name = "SetModel" =>
          request = [reqBefore EXCEPT !.Model = request.Model]
    /\ reqOp.name = "SetStreaming" =>
          request = [reqBefore EXCEPT !.Stream = request.Stream]

C9_Witness ==
    /\ reqOp.name = "SetModel"
    /\ reqBefore.Model = Nil
    /\ request.Model = Ptr("test-model")
    /\ Len(request.Messages) = 3
    /\ request.ExtraParams # {}
    /\ request.Temperature = Ptr(2)
    /\ request.MaxTokens = Ptr(0)
    /\ request.TopP # Nil
    /\ request.TopK # Nil
    /\ request.Stream

\* C10: for every string m, the empty one included, BuildSimpleRequest(m)
\* returns a request with exactly one message, of role user and content m,
\* and with no optional parameter set.
C10_BuildSimpleRequest ==
    reqOp.name = "BuildSimpleRequest" =>
        /\ Len(request.Messages) = 1
        /\ request.Messages[1].Role = RoleUser
        /\ request.Messages[1].Content = reqOp.arg
        /\ request.Temperature = Nil
        /\ request.MaxTokens = Nil
        /\ request.TopP = Nil
        /\ request.TopK = Nil
        /\ request.Model = Nil
        /\ request.Stream = FALSE
        /\ request.ExtraParams = {}
        /\ request.SystemPrompt = ""

C10_Witness ==
    /\ reqOp.name = "BuildSimpleRequest"
    /\ reqOp.arg = ""
    /\ reqBefore.Temperature # Nil
    /\ Len(reqBefore.Messages) = 3
    /\ request.Messages = <<Message(RoleUser, "")>>

\* C11: for all systemPrompt and userMessage, the empty strings included,
\* BuildRequestWithSystemPrompt returns exactly two messages: a system message
\* with content systemPrompt, then a user message with content userMessage.
C11_BuildRequestWithSystemPrompt ==
    reqOp.name = "BuildRequestWithSystemPrompt" =>
        /\ Len(request.Messages) = 2
        /\ request.Messages[1].Role = RoleSystem
        /\ request.Messages[1].Content = reqOp.arg[1]
        /\ request.Messages[2].Role = RoleUser
        /\ request.Messages[2].Content = reqOp.arg[2]

C11_Witness ==
    /\ reqOp.name = "BuildRequestWithSystemPrompt"
    /\ reqOp.arg = <<"", "">>
    /\ Len(reqBefore.Messages) = 1
    /\ request.Messages = <<Message(RoleSystem, ""), Message(RoleUser, "")>>

\* C12: BuildChatRequest(history, userMessage) returns a request whose messages
\* are the history messages in order followed by one user message with content
\* userMessage; the result is a copy: it has a backing array of its own, the
\* history still holds what its owner put into it, and the history and the
\* request each keep their own contents through every later AddMessage on the
\* history and AddSystemMessage or AddUserMessage on the request.
C12_BuildChatRequestCopies ==
    /\ chatOp.name = "BuildChatRequest" =>
          /\ Elems(mem, chatRequest) =
                chatOp.history \o <<Message(RoleUser, chatOp.userMessage)>>
          /\ Elems(mem, chatHistory) = chatOp.history
          /\ chatRequest.arr # chatHistory.arr
    /\ Elems(mem, chatHistory) = histValue
    /\ chatRequest.arr # 0 => Elems(mem, chatRequest) = reqValue

\* A request was built from a two-message history whose array had room to
\* spare, then changed at both ends, and the history is as it was.
C12_Witness ==
    /\ chatOp.name = "Request.AddUserMessage"
    /\ chatHistory.len = 2
    /\ Cap(mem, chatHistory) > 2
    /\ histValue[1] # histValue[2]
    /\ Len(reqValue) = 5
    /\ reqValue[1].Role = RoleSystem
    /\ SubSeq(reqValue, 2, 3) = histValue
    /\ Elems(mem, chatHistory) = histValue

-----------------------------------------------------------------------------
(* Sampling parameters in the payload.                                     *)

ParamNames == {"temperature", "maxTokens", "topP", "topK"}

RequestParam(r, p) ==
    CASE p = "temperature" -> r.Temperature
      [] p = "maxTokens" -> r.MaxTokens
      [] p = "topP" -> r.TopP
      [] p = "topK" -> r.TopK

ConfigParam(cfg, p) ==
    CASE p = "temperature" -> cfg.DefaultTemperature
      [] p = "maxTokens" -> cfg.DefaultMaxTokens
      [] p = "topP" -> cfg.DefaultTopP
      [] p = "topK" -> cfg.DefaultTopK

\* The payload member the provider reads the parameter from.
PayloadKey(kind, p) ==
    CASE p = "temperature" -> "temperature"
      [] p = "maxTokens" -> "max_tokens"
      [] p = "topP" -> IF kind = "cohereClient" THEN "p" ELSE "top_p"
      [] p = "topK" -> IF kind = "cohereClient" THEN "k" ELSE "top_k"

\* The provider's hardcoded default, Nil where it has none.
HardcodedDefault(kind, p) ==
    IF kind = "qwenClient" /\ p = "maxTokens" THEN Ptr(1500) ELSE Nil

\* The value the payload carries under key, Nil when it carries none.
Carried(pl, key) == IF key \in DOMAIN pl THEN Ptr(pl[key]) ELSE Nil

\* Request value, else config default, else hardcoded default, else nothing.
Resolved(c, r, p) ==
    IF RequestParam(r, p) # Nil THEN RequestParam(r, p)
    ELSE IF ConfigParam(c.config, p) # Nil THEN ConfigParam(c.config, p)
    ELSE HardcodedDefault(c.kind, p)

ExtraKeys(r) == {kv[1] : kv \in r.ExtraParams}

-----------------------------------------------------------------------------
(* Calls on an adapter.                                                    *)

\* The adapter as its constructor made it.
FreshClient == NewAdapter(config).client

HistoryCalls == {"GenerateWithHistory", "llm.GenerateWithHistory"}
GenerateCalls == {"Generate"} \cup HistoryCalls

\* The call ran to its return on a reply it read to the end.
Answered == pc = "done" /\ reply.complete

\* The error taxonomy, read off the messages the adapters produce.
IsRemoteAPIError(e) ==
    \E name \in {"LLM API error ", "Qwen API error ", "Azure OpenAI API error ",
                 "Cohere API error ", "Cohere Embedding API error "} :
        HasPrefix(e, name)
IsEmptyResultError(e) ==
    e \in {"no choices in LLM response", "no choices in response",
           "no choices in Azure OpenAI response", "no embeddings in response"}
IsTransportError(e) ==
    \E name \in {"failed to send request: ", "failed to read response: ",
                 "failed to send embedding request: ",
                 "failed to read embedding response: "} :
        HasPrefix(e, name)
IsCancellation(e) == Contains(e, "context canceled") \/ Contains(e, "context deadline exceeded")

\* The decimal numeral of each status code of the model.
Decimal(status) ==
    CASE status = 199 -> "199" [] status = 200 -> "200" [] status = 299 -> "299"
      [] status = 300 -> "300" [] status = 301 -> "301" [] status = 429 -> "429"

\* C13: for every adapter, GenerateWithHistory(history, userMessage,
\* systemPrompt) makes exactly one Generate call, whose request messages are a
\* system message with content systemPrompt first if and only if systemPrompt
\* is non-empty, then the history messages in order, then a user message with
\* content userMessage last.
C13_GenerateWithHistoryRequest ==
    callOp.name \in HistoryCalls =>
        /\ Len(generateCalls) = 1
        /\ generateCalls[1].Messages =
              (IF callOp.systemPrompt # ""
               THEN <<Message(RoleSystem, callOp.systemPrompt)>> ELSE <<>>)
              \o histValue \o <<Message(RoleUser, callOp.userMessage)>>

\* The Cohere adapter was called with a two-message history and an empty
\* system prompt, and its Generate call sent the POST.
C13_Witness ==
    /\ callOp.name = "GenerateWithHistory"
    /\ client.kind = "cohereClient"
    /\ callOp.systemPrompt = ""
    /\ Len(histValue) = 2
    /\ pc = "sending"
    /\ Len(generateCalls[1].Messages) = 3
    /\ generateCalls[1].Messages[1].Role = RoleUser

\* C14: after Generate, GenerateWithHistory or CreateEmbedding returns an
\* error of any kind, the adapter's configuration and the caller's ChatHistory
\* equal their values before the call, and a following call on the same
\* adapter is processed exactly as a call on a fresh adapter: same payload,
\* same request, same result for the same reply.
C14_FailedCallLeavesNoTrace ==
    (prevFailed \/ (pc = "done" /\ result.err # NoError)) =>
        /\ client = FreshClient
        /\ Elems(mem, chatHistory) = histValue
        /\ (prevFailed /\ callOp.name \in GenerateCalls) =>
              /\ payload = buildPayload(FreshClient, genRequest)
              /\ Len(httpLog) = 1 => httpLog[1] = GeneratePrepare(FreshClient, genRequest).httpRequest
              /\ Answered => result = GenerateComplete(FreshClient, reply.status, reply.body)
        /\ (prevFailed /\ callOp.name \in HistoryCalls) =>
              genRequest.Messages =
                  (IF callOp.systemPrompt # ""
                   THEN <<Message(RoleSystem, callOp.systemPrompt)>> ELSE <<>>)
                  \o histValue \o <<Message(RoleUser, callOp.userMessage)>>

\* After a failed call, a GenerateWithHistory call on a two-message history
\* succeeded.
C14_Witness ==
    /\ prevFailed
    /\ callOp.name = "GenerateWithHistory"
    /\ Len(histValue) = 2
    /\ Answered
    /\ result.err = NoError
    /\ result.response # Nil

\* C16: for every adapter, when the provider answers with an HTTP status
\* outside 200..299, Generate returns no Response and a RemoteAPIError whose
\* message contains the numeric status code and the response body text
\* verbatim, whether or not the body is valid JSON.
C16_StatusBeforeDecode ==
    (Answered /\ callOp.name \in GenerateCalls
     /\ (reply.status < 200 \/ reply.status > 299)) =>
        /\ result.response = Nil
        /\ IsRemoteAPIError(result.err)
        /\ Contains(result.err, Decimal(reply.status))
        /\ Contains(result.err, reply.body)

\* The OpenAI-compatible adapter got 429 with the body rate limited.
C16_Witness ==
    /\ Answered
    /\ callOp.name = "Generate"
    /\ client.kind = "openAIClient"
    /\ reply.status = 429
    /\ reply.body = "rate limited"
    /\ result = [response |-> Nil, err |-> "LLM API error 429: rate limited"]

\* C17: for the OpenAI-compatible, Azure and Qwen adapters, Generate returns
\* EmptyResultError and no Response whenever a 2xx reply's decoded body has an
\* empty or missing choices array.
C17_NoChoicesIsAnError ==
    (Answered /\ callOp.name \in GenerateCalls
     /\ client.kind \in {"openAIClient", "azureClient", "qwenClient"}
     /\ reply.status >= 200 /\ reply.status <= 299
     /\ jsonValid(reply.body)
     /\ Get(jsonValue(reply.body), "choices", <<>>) = <<>>) =>
        /\ result.response = Nil
        /\ IsEmptyResultError(result.err)

\* The Azure adapter got 200 with a body that has no choices member.
C17_Witness ==
    /\ Answered
    /\ callOp.name = "Generate"
    /\ client.kind = "azureClient"
    /\ reply.status = 200
    /\ reply.body = "{}"
    /\ result = [response |-> Nil, err |-> "no choices in Azure OpenAI response"]

\* C18: every Generate or CreateEmbedding call issues at most one HTTP POST,
\* and when that POST fails (transport error, status outside 2xx, undecodable
\* body or empty result) the call returns the error and no response, having
\* issued no other request.
C18_NothingIsRetried ==
    /\ Len(httpLog) <= 1
    /\ \A i \in 1..Len(httpLog) : httpLog[i].method = "POST"
    /\ (pc = "done" /\ Len(httpLog) = 1 /\ ~reply.complete) =>
          result.response = Nil /\ IsTransportError(result.err)
    /\ (Answered /\ (reply.status < 200 \/ reply.status > 299
                     \/ ~jsonValid(reply.body))) =>
          result.response = Nil /\ result.err # NoError
    /\ IsEmptyResultError(result.err) => pc = "done" /\ result.response = Nil

\* A CreateEmbedding call on the Cohere adapter sent its POST, the
\* connection was refused, and the call returned the error.
C18_Witness ==
    /\ pc = "done"
    /\ callOp.name = "CreateEmbedding"
    /\ client.kind = "cohereClient"
    /\ Len(httpLog) = 1
    /\ reply = NoReply
    /\ HasPrefix(result.err, "failed to send embedding request: ")
    /\ Contains(result.err, "connection refused")

\* C19: when the call's context is cancelled or its deadline expires before
\* the HTTP round trip completes, Generate or CreateEmbedding returns a
\* TransportError of cancellation kind and never a Response.
C19_CancellationEndsTheCall ==
    (pc = "done" /\ ctxDoneAt # "" /\ Len(httpLog) = 1) =>
        /\ result.response = Nil
        /\ IsTransportError(result.err)
        /\ IsCancellation(result.err)

\* The caller cancelled while the body of a 200 reply was being read.
C19_Witness ==
    /\ pc = "done"
    /\ callOp.name = "Generate"
    /\ ctxDoneAt = "reading"
    /\ reply.status = 200
    /\ result = [response |-> Nil, err |-> "failed to read response: context canceled"]

\* C20: every Generate call eventually returns, a Response or an error, even
\* when the caller's context has no deadline and the provider never answers.
C20_GenerateReturns ==
    (pc \in {"sending", "reading"} /\ callOp.name \in GenerateCalls) ~> (pc = "done")

\* C30: ChatHistory.Truncate(n) with n < 0 is not a no-op and does not empty
\* the history: for every history, an empty one included, it aborts with a
\* runtime panic (slice bounds out of range) and assigns nothing.
C30_TruncateNegativePanics ==
    /\ (histOp.name = "Truncate" /\ histOp.n < 0) =>
          /\ panicked
          /\ history = histBefore
    /\ \A n \in {k \in TruncateArgs : k < 0} :
          /\ TruncatePanics(history, n)
          /\ TruncatePanics(ZeroChatHistory, n)

\* Truncate(-2) was called on a history of two messages, and Truncate(-1) on
\* an empty one.
C30_Witness ==
    /\ histOp.name = "Truncate"
    /\ panicked
    /\ \/ histOp.n = -2 /\ Len(GetMessages(histBefore)) = 2
       \/ histOp.n = -1 /\ Len(GetMessages(histBefore)) = 0

\* What the library calls an unsupported operation.
IsUnsupportedOperationError(e) == Contains(e, "not supported")

C23_OneEmbeddingPerInput ==
    (pc = "done" /\ callOp.name = "CreateEmbedding" /\ result.response # Nil) =>
        LET embeddings == result.response[1].Embeddings
        IN  /\ Len(embeddings) = Len(callOp.request.Input)
            /\ \A i \in 1..Len(embeddings) : Len(embeddings[i]) > 0

-----------------------------------------------------------------------------
(* Payloads of requests of every shape.                                    *)

\* The index of the latest user message of a sequence, 0 when it has none.
LatestUser(messages) ==
    LET users == {i \in 1..Len(messages) : messages[i].Role = RoleUser}
    IN  IF users = {} THEN 0 ELSE CHOOSE i \in users : \A j \in users : j <= i

\* The user and assistant messages of a sequence other than the one at
\* index skip, in their order, with the roles as Cohere names them.
RECURSIVE OtherTurns(_, _, _)
OtherTurns(messages, skip, i) ==
    IF i > Len(messages) THEN <<>>
    ELSE (IF i # skip /\ messages[i].Role \in {RoleUser, RoleAssistant}
          THEN <<[role |-> IF messages[i].Role = RoleUser THEN "USER" ELSE "CHATBOT",
                  message |-> messages[i].Content]>>
          ELSE <<>>)
         \o OtherTurns(messages, skip, i + 1)

\* C24: for every request given to the Cohere adapter, the payload's message
\* is the content of the latest user message in the request, chat_history
\* holds all the other user and assistant messages in their original order
\* with roles renamed USER and CHATBOT, and system messages appear in neither.
C24_CoherePayload ==
    (client.kind = "cohereClient" /\ payload # NoPayload) =>
        LET messages == genRequest.Messages
            latest == LatestUser(messages)
        IN  /\ payload["message"] =
                  (IF latest = 0 THEN "" ELSE messages[latest].Content)
            /\ Get(payload, "chat_history", <<>>) = OtherTurns(messages, latest, 1)

\* C27: for every adapter and request, Generate with the request's stream
\* flag set sends the same payload as with the flag cleared.
C27_StreamFlagChangesNothing ==
    payload # NoPayload =>
        payload = buildPayload(client, [genRequest EXCEPT !.Stream = FALSE])

\* The text a message stands for in the prompt, by the role labels of the
\* legacy Qwen adapter.
RoleLabel(role) ==
    CASE role = RoleSystem -> "System"
      [] role = RoleUser -> "User"
      [] role = RoleAssistant -> "Assistant"
      [] role = RoleFunction -> "Function"

RECURSIVE Labelled(_, _)
Labelled(messages, i) ==
    IF i > Len(messages) THEN ""
    ELSE RoleLabel(messages[i].Role) \o ": " \o messages[i].Content \o "\n\n"
         \o Labelled(messages, i + 1)

\* C28: for every message sequence given to the legacy Qwen adapter, the
\* prompt sent is the concatenation, in message order, of each message's role
\* label, its content and a blank-line separator, followed by the text
\* Assistant: ; the prompt always ends in Assistant: and contains every
\* message of the request.
C28_LegacyQwenPrompt ==
    (client.kind = "legacyQwenClient" /\ payload # NoPayload) =>
        LET prompt == payload["input"]["prompt"]
        IN  /\ prompt = Labelled(genRequest.Messages, 1) \o "Assistant:"
            /\ \A i \in 1..Len(genRequest.Messages) :
                  Contains(prompt, ": " \o genRequest.Messages[i].Content \o "\n\n")

-----------------------------------------------------------------------------
(* Replies and what the adapters make of them.                             *)

\* C25: for the OpenAI-compatible adapter, a 2xx reply with at least one
\* choice yields a Response whose content and role are those of
\* choices[0].message, whose finishReason is choices[0].finish_reason and
\* whose tokensUsed is usage.total_tokens; later choices are ignored.
C25_FirstChoiceIsTheResponse ==
    (Answered /\ callOp.name \in GenerateCalls /\ client.kind = "openAIClient"
     /\ reply.status >= 200 /\ reply.status <= 299
     /\ jsonValid(reply.body)
     /\ Len(Get(jsonValue(reply.body), "choices", <<>>)) > 0) =>
        LET value == jsonValue(reply.body)
            first == value["choices"][1]
        IN  /\ result.err = NoError
            /\ result.response # Nil
            /\ result.response[1].Content = first["message"]["content"]
            /\ result.response[1].Role = first["message"]["role"]
            /\ result.response[1].FinishReason = first["finish_reason"]
            /\ result.response[1].TokensUsed = value["usage"]["total_tokens"]

\* The OpenAI-compatible adapter got 200 with two choices and returned the
\* first: pong, assistant, stop, and the reply's token count.
C25_Witness ==
    /\ Answered
    /\ callOp.name = "Generate"
    /\ client.kind = "openAIClient"
    /\ reply.status = 200
    /\ reply.body = TwoChoicesBody
    /\ result.response = Ptr([Content |-> "pong", Role |-> "assistant",
                              TokensUsed |-> 7, FinishReason |-> "stop",
                              Stream |-> Nil])

-----------------------------------------------------------------------------
(* The configuration an adapter hands out.                                 *)

\* The defaults of each provider, as the library documents them.
ProviderBaseURL(provider) ==
    CASE provider = ProviderOpenAI -> "https://api.openai.com/v1"
      [] provider = ProviderDeepSeek -> "https://api.deepseek.com"
      [] provider = ProviderQwen -> "https://dashscope-intl.aliyuncs.com/compatible-mode/v1"
      [] provider = ProviderCohere -> "https://api.cohere.ai/v1"
      [] OTHER -> ""
ProviderModel(provider) ==
    CASE provider = ProviderOpenAI -> "gpt-3.5-turbo"
      [] provider = ProviderDeepSeek -> "deepseek-chat"
      [] provider = ProviderQwen -> "qwen3-next-80b-a3b-instruct"
      [] provider = ProviderAzure -> "gpt-35-turbo"
      [] provider = ProviderCohere -> "embed-multilingual-v3.0"

\* C26: GetConfig returns the adapter's configuration snapshot: it echoes the
\* provider and apiKey given to the constructor, has an empty baseURL, zero
\* timeout and empty defaultModel replaced by the provider's defaults (timeout
\* 30 s), and returns the same value after any sequence of Generate,
\* GenerateWithHistory, CreateEmbedding, Close and GetConfig calls.
C26_GetConfigIsTheSnapshot ==
    (callOp.name = "GetConfig" /\ pc = "done") =>
        /\ result.err = NoError
        /\ result.response # Nil
        /\ LET got == result.response[1]
           IN  /\ got.Provider = config.Provider
               /\ got.APIKey = config.APIKey
               /\ got.BaseURL = (IF config.BaseURL = ""
                                 THEN ProviderBaseURL(config.Provider)
                                 ELSE config.BaseURL)
               /\ got.Timeout = (IF config.Timeout = 0 THEN 30 ELSE config.Timeout)
               /\ got.DefaultModel = (IF config.DefaultModel = ""
                                      THEN ProviderModel(config.Provider)
                                      ELSE config.DefaultModel)
               /\ got = [config EXCEPT !.BaseURL = got.BaseURL,
                                       !.Timeout = got.Timeout,
                                       !.DefaultModel = got.DefaultModel]

\* After a failed call, GetConfig on the Cohere adapter returned the config
\* with the three defaults filled in.
C26_Witness ==
    /\ callOp.name = "GetConfig"
    /\ pc = "done"
    /\ prevFailed
    /\ config.Provider = ProviderCohere
    /\ config.Timeout = 0
    /\ result.response[1].Timeout = 30
    /\ result.response[1].BaseURL = "https://api.cohere.ai/v1"
    /\ result.response[1].APIKey = "test-key"

-----------------------------------------------------------------------------
(* The caller's history across GenerateWithHistory calls.                  *)

\* C29: GenerateWithHistory, the adapter method and the package-level
\* helper, never changes the caller's ChatHistory, on success as well as on
\* failure: the history holds exactly the messages it held before, neither
\* the new user message nor the system prompt is stored, and a second call
\* with the same history and arguments builds the same request.
C29_HistoryIsNeverChanged ==
    /\ chatHistory.len = Len(histValue)
    /\ Elems(mem, chatHistory) = histValue
    /\ (callOp.name \in HistoryCalls /\ lastHistoryCall # NoHistoryCall
        /\ lastHistoryCall.userMessage = callOp.userMessage
        /\ lastHistoryCall.systemPrompt = callOp.systemPrompt) =>
          genRequest.Messages = lastHistoryCall.messages

\* A second GenerateWithHistory call on a two-message history, with the same
\* system prompt and user message as the first, which had succeeded, built
\* the same four messages and succeeded too.
C29_Witness ==
    /\ callOp.name \in HistoryCalls
    /\ ~prevFailed
    /\ lastHistoryCall # NoHistoryCall
    /\ lastHistoryCall.systemPrompt = callOp.systemPrompt
    /\ callOp.systemPrompt # ""
    /\ Len(histValue) = 2
    /\ Len(genRequest.Messages) = 4
    /\ Answered
    /\ result.err = NoError

-----------------------------------------------------------------------------
(* Calls that run at the same time.                                        *)

Started(g) == inflight[g].pc # "idle"
Finished(g) == inflight[g].pc = "done" /\ inflight[g].reply.complete

\* C21: for any interleaving of two or more Generate calls on the same
\* adapter, each call's payload is built only from its own request and the
\* adapter's configuration, each call's result is derived only from the reply
\* to its own POST, and the adapter's configuration is unchanged.
C21_ConcurrentCallsDoNotInterfere ==
    /\ client = FreshClient
    /\ \A g \in Goroutines :
          /\ Started(g) =>
                /\ inflight[g].payload = buildPayload(FreshClient, inflight[g].request)
                /\ inflight[g].httpRequest.body = inflight[g].payload
          /\ Finished(g) =>
                inflight[g].result =
                    GenerateComplete(FreshClient, inflight[g].reply.status,
                                     inflight[g].reply.body)
    /\ \A g, h \in Goroutines :
          /\ (Started(g) /\ Started(h) /\ inflight[g].request = inflight[h].request) =>
                inflight[g].payload = inflight[h].payload
          /\ (Finished(g) /\ Finished(h) /\ inflight[g].reply = inflight[h].reply) =>
                inflight[g].result = inflight[h].result

\* Two calls with different requests ran at the same time on the
\* OpenAI-compatible adapter: one got 429, the other a response, each from
\* its own reply, and each had sent its own model.
C21_Witness ==
    /\ client.kind = "openAIClient"
    /\ Finished(1) /\ Finished(2)
    /\ inflight[1].request # inflight[2].request
    /\ inflight[1].payload["model"] = "model-b"
    /\ inflight[2].payload["model"] = "gpt-3.5-turbo"
    /\ inflight[1].reply.status = 429
    /\ inflight[1].result.response = Nil
    /\ inflight[2].reply.status = 200
    /\ inflight[2].result.response # Nil

====
